---- MODULE Spec2Model ----
(***************************************************************************)
(* State-machine model of the host-independent core of PTDetailing:        *)
(*   - the PTD export parser        (src/lib/ptd_parser/parser.py)         *)
(*   - the 2-D geometry kernel      (src/lib/utils/geometry.py)            *)
(*   - the tendon grouping engine   (src/lib/revit_backend/grouping.py)    *)
(*   - the alignment engine         (src/lib/revit_backend/alignment.py)   *)
(*                                                                         *)
(* Number representation.  The code computes in floating point; the model  *)
(* computes exactly.  A decimal literal of the export file is the pair     *)
(* <<w, f>> standing for w + f / FracDen, and a parsed float is the        *)
(* integer count of 1/FracDen units.  Geometry is done on integer          *)
(* coordinates; a Euclidean distance is carried as its square.             *)
(***************************************************************************)
EXTENDS Integers, Sequences, FiniteSets, TLC

VARIABLES
    \* ---- parser (parse_ptd_file) ----
    lines,      \* the non-consumed-yet file is implicit: lines read so far
    tendons,    \* list of closed TendonData records
    tendon,     \* the open record: <<>> (None) or <<record>>
    in_table,   \* table mode flag
    pstatus,    \* "start" | "reading" | "done" (returned) | "failed" (exception raised)
    path_state, \* the file named by `path`: "missing" | "denied" | "undecodable" | "readable"
    raised,     \* the exception raised: "" | "PTDParsingError" | "OSError" | "UnicodeDecodeError" | "ValueError"
    \* ---- geometry kernel (convex_hull) ----
    h_points,   \* the argument `points`, a list
    h_pts,      \* sorted(set(points))
    h_lower,    \* lower chain
    h_upper,    \* upper chain
    h_hull,     \* the returned list
    h_pc,       \* "idle" | "start" | "lower" | "upper" | "concat" | "done"
    \* ---- grouping engine (group_tendons) ----
    g_tendons,   \* the argument `tendons`; a tendon object is its index here
    g_tol,       \* the tolerances passed
    g_ungrouped, \* list of tendons (indices) not yet grouped
    g_groups,    \* list of groups, each a list of tendons (indices)
    g_pc,        \* "idle" | "loop" | "done"
    \* ---- alignment engine (get_alignment_transform) ----
    a_slab,      \* slab_hull, as _collect_combined_floor_hull returns it (<<>>: no floors)
    a_pts,       \* the argument tendon_pts
    a_cfg,       \* max_error_ft, tolerance_ft, angle_step_deg, refine_step_deg, allow_rotation
    a_best,      \* best[0] of find_best_transform: (err, angle_rad, dx, dy) or None
    a_eval,      \* the candidates (err, angle, dx, dy) of the last _evaluate, in order
    a_hist,      \* the candidates of all angles evaluated so far, in order
    a_angle,     \* `angle` of the coarse sweep
    a_refine,    \* angles of the refinement loop not evaluated yet
    a_find,      \* what find_best_transform returned: "pending" | "none" | "found"
    a_res,       \* what get_alignment_transform returned
    a_err,       \* the error (err_s or err) of the transform returned automatically
    a_applied,   \* the points as import_ptd_file transformed them (<<>>: not transformed)
    a_pc,        \* "idle" | "simple" | "find" | "sweep" | "refine" | "snap" | "pick" | "done" | "applied"
    \* ---- Hausdorff distance (hausdorff_distance) ----
    d_a,  \* the point list a
    d_b,  \* the point list b
    d_ab,  \* hausdorff_distance(a, b), squared
    d_ba,  \* hausdorff_distance(b, a), squared
    d_aa,  \* _directed_hausdorff(a, a), squared
    d_pc, \* "idle" | "ab" | "ba" | "aa" | "done"
    \* ---- element creation ----
    c_set,  \* tendon_set
    c_cfg,  \* the settings and arguments create_tendons reads
    c_leaders,  \* the leaders the groups call for
    c_i,  \* the tendon the loop is at
    c_tx,  \* the Create PT Tendons transaction: "none" | "started" | "committed" | "rolled_back"
    c_tagtx,  \* the Tag Live Tendon Ends transaction, likewise
    c_open,  \* the elements created in the open transaction
    c_doc,  \* the elements committed to the document
    c_failed,  \* "none", or the transaction in which a step raised
    c_pc, \* "idle" | "start" | "activate" | "tendons" | "snap" | "tag" | "done"
    \* ---- point in hull ----
    q_points,  \* the points whose hull is probed
    q_hull,  \* convex_hull(points)
    q_pt,  \* the point probed
    q_in,  \* pt_in_convex(pt, hull)
    q_pc  \* "idle" | "hull" | "point" | "done"

parserVars == <<lines, tendons, tendon, in_table, pstatus, path_state, raised>>

hullVars == <<h_points, h_pts, h_lower, h_upper, h_hull, h_pc>>

groupVars == <<g_tendons, g_tol, g_ungrouped, g_groups, g_pc>>

alignVars == <<a_slab, a_pts, a_cfg, a_best, a_eval, a_hist, a_angle, a_refine, a_find, a_res, a_err, a_applied, a_pc>>

distVars == <<d_a, d_b, d_ab, d_ba, d_aa, d_pc>>

createVars == <<c_set, c_cfg, c_leaders, c_i, c_tx, c_tagtx, c_open, c_doc, c_failed, c_pc>>

probeVars == <<q_points, q_hull, q_pt, q_in, q_pc>>

vars == <<parserVars, hullVars, groupVars, alignVars, distVars, createVars, probeVars>>

\* What each component leaves alone
notParser == <<hullVars, groupVars, alignVars, distVars, createVars, probeVars>>
notHull == <<parserVars, groupVars, alignVars, distVars, createVars, probeVars>>
notGroup == <<parserVars, hullVars, alignVars, distVars, createVars, probeVars>>
notAlign == <<parserVars, hullVars, groupVars, distVars, createVars, probeVars>>
notDist == <<parserVars, hullVars, groupVars, alignVars, createVars, probeVars>>
notCreate == <<parserVars, hullVars, groupVars, alignVars, distVars, probeVars>>
notProbe == <<parserVars, hullVars, groupVars, alignVars, distVars, createVars>>

(***************************************************************************)
(* Generic helpers                                                         *)
(***************************************************************************)
Abs(x) == IF x < 0 THEN -x ELSE x

Last(s) == s[Len(s)]

IsPrefix(s, t) == Len(s) <= Len(t) /\ \A i \in 1..Len(s) : s[i] = t[i]

(***************************************************************************)
(* PARSER                                                                  *)
(***************************************************************************)
\* Bounds of the parser inputs
MaxLines == 3
MaxTableLines == 5

\* Denominator of the decimal literals: three fractional digits, as the export
\* writes them.
FracDen == 10 ^ 3

MM_PER_M == 1000

\* End kinds as the parser and the placement code use them.
KindStressed == 1
KindDead == 2
KindPan == 3
\* Pan tendon type
TypePan == 2

\* A stripped line, classified by the first regular expression of the
\* parser's chain that matches it.  k is that class, v the captured groups,
\* s the captured marker text, bad whether a captured numeric literal is one
\* that float() rejects (the patterns [^)]+ and [\d\.]+ admit such text).
Line(k, v, s, bad) == [k |-> k, v |-> v, s |-> s, bad |-> bad]

LHeader(id) == Line("header", <<id>>, "", FALSE)
LLength(lit) == Line("length", <<lit>>, "", FALSE)
LCoords(sx, sy, ex, ey) == Line("coords", <<sx, sy, ex, ey>>, "", FALSE)
LCoordsBad == Line("coords", <<>>, "", TRUE)
LType(n) == Line("type", <<n>>, "", FALSE)
LStrandType(lit) == Line("strand_type", <<lit>>, "", FALSE)
LStrandTypeBad == Line("strand_type", <<>>, "", TRUE)
LStrandNo(n) == Line("strand_no", <<n>>, "", FALSE)
LStart(txt) == Line("start", <<>>, txt, FALSE)
LEnd(txt) == Line("end", <<>>, txt, FALSE)
LTableStart == Line("table_start", <<>>, "", FALSE)
LRow(n, l, h, rs, rh) == Line("row", <<n, l, h, rs, rh>>, "", FALSE)
LRowBad == Line("row", <<>>, "", TRUE)
\* Lines written for a field with a literal that is not a number.  The
\* pattern of the length admits digits, a point and digits only, so that
\* "Length : 12m" or "Length : 1.2.3m" matches no pattern of the chain; the
\* patterns of the type and of the strand count take the leading digits, so
\* that "Type : 2x" is a type line of value 2 (s keeps the text left over); the
\* H column of a row is captured and never converted.
LLengthUnmatched == Line("unmatched_length", <<>>, "", FALSE)
LTypeTrailing(n) == Line("type", <<n>>, "x", FALSE)
LStrandNoTrailing(n) == Line("strand_no", <<n>>, ".5", FALSE)
LRowMalformedH(n, l, rs) == Line("row", <<n, l, <<>>, rs, <<0, 0>>>>, "1..2", FALSE)
LBlank == Line("blank", <<>>, "", FALSE)
LOther == Line("other", <<>>, "", FALSE)

\* The literal example block of the parser's docstring.
ExampleBlock ==
    << LHeader(1),
       LLength(<<12, 345>>),
       LCoords(<<100, 0>>, <<200, 0>>, <<300, 0>>, <<200, 0>>),
       LType(1),
       LStrandType(<<12, 700>>),
       LStrandNo(3),
       LTableStart,
       LRow(1, <<0, 0>>, <<0, 0>>, <<0, 0>>, <<0, 0>>),
       LRow(2, <<3, 500>>, <<0, 25>>, <<0, 0>>, <<0, 0>>) >>

RowA == LRow(1, <<0, 0>>, <<0, 40>>, <<0, 120>>, <<0, 0>>)
RowB == LRow(2, <<3, 500>>, <<0, 25>>, <<0, 25>>, <<0, 0>>)

GeneralShapes ==
    { LHeader(1), LHeader(2), LLength(<<12, 345>>),
      LCoords(<<100, 0>>, <<200, 0>>, <<300, 0>>, <<200, 0>>), LCoordsBad,
      LType(1), LType(2), LStrandType(<<12, 700>>), LStrandTypeBad,
      LStrandNo(3),
      LStart("Live End"), LStart("Dead End"), LEnd("Live End"), LEnd("Dead End"),
      LTableStart, RowA, RowB, LRowBad, LBlank, LOther,
      LLengthUnmatched, LTypeTrailing(2), LStrandNoTrailing(3),
      LRowMalformedH(1, <<1, 500>>, <<0, 120>>) }

TableShapes ==
    { LHeader(1), LHeader(2), LType(2), LTableStart, RowA, LBlank, LOther }

\* The input files of the model: every file of at most MaxLines lines over
\* GeneralShapes, every file of at most MaxTableLines lines over TableShapes,
\* and the example block.
InputPrefix(ls) ==
    \/ Len(ls) <= MaxLines /\ \A i \in 1..Len(ls) : ls[i] \in GeneralShapes
    \/ Len(ls) <= MaxTableLines /\ \A i \in 1..Len(ls) : ls[i] \in TableShapes
    \/ IsPrefix(ls, ExampleBlock)

AllShapes == GeneralShapes \cup TableShapes \cup {ExampleBlock[i] : i \in 1..Len(ExampleBlock)}

\* float(val) of a well-formed literal, in units of 1/FracDen
Float(lit) == lit[1] * FracDen + lit[2]

\* _float_mm: metres to millimetres (units of 1/FracDen mm)
FloatMm(val) == Float(val) * MM_PER_M

\* _coord_pair: "x, y" in metres to a pair in millimetres
CoordPair(x, y) == <<Float(x) * MM_PER_M, Float(y) * MM_PER_M>>

\* int(x) of a non-negative float x given in units of 1/FracDen: truncation
IntTrunc(x) == x \div FracDen

\* TendonPoint(distance_mm, height_mm)
TendonPoint(d, h) == [distance_mm |-> d, height_mm |-> h]

\* The dataclass defaults of TendonData
DefaultStartType == 1
DefaultEndType == 3

\* TendonData(id=..., zero-valued fields), as the header branch builds it
NewTendon(id) ==
    [ id |-> id, length_mm |-> 0, start_xy_mm |-> <<0, 0>>, end_xy_mm |-> <<0, 0>>,
      tendon_type |-> 0, strand_type |-> 0, strand_count |-> 0,
      start_type |-> DefaultStartType, end_type |-> DefaultEndType,
      points |-> <<>> ]

\* is_live = "live" in match.group(1).lower()
IsLive(txt) == txt = "Live End"

\* The kind an explicit end marker sets, given the record's tendon_type at
\* the time the marker line is read
MarkerKind_NoPan(txt, ttype) == IF IsLive(txt) THEN KindStressed ELSE KindDead

MarkerKind(txt, ttype) ==
    IF IsLive(txt)
    THEN (IF ttype = TypePan THEN KindPan ELSE KindStressed)
    ELSE KindDead

\* Column of the table row the height is read from: the groups of _TABLE_ROW
\* are (No, L, H, Rs) and the code unpacks them as _, dist_str, _h_raw, h5_str
HeightColumn == 4

\* The profile point a row yields
RowPoint(v) ==
    TendonPoint(FloatMm(v[2]), IntTrunc(Float(v[HeightColumn]) * MM_PER_M))

\* The open record after a recognised field line l (the branches of the chain
\* between the header branch and the table branch)
FieldUpdate(t, l) ==
    CASE l.k = "length" -> [t EXCEPT !.length_mm = FloatMm(l.v[1])]
      [] l.k = "coords" -> [t EXCEPT !.start_xy_mm = CoordPair(l.v[1], l.v[2]),
                                     !.end_xy_mm = CoordPair(l.v[3], l.v[4])]
      [] l.k = "type" -> [t EXCEPT !.tendon_type = l.v[1]]
      [] l.k = "strand_type" -> [t EXCEPT !.strand_type = Float(l.v[1])]
      [] l.k = "strand_no" -> [t EXCEPT !.strand_count = l.v[1]]
      [] l.k = "start" -> [t EXCEPT !.start_type = MarkerKind(l.s, t.tendon_type)]
      [] l.k = "end" -> [t EXCEPT !.end_type = MarkerKind(l.s, t.tendon_type)]

FieldKinds == {"length", "coords", "type", "strand_type", "strand_no", "start", "end"}

\* `if tendon: tendons.append(tendon)`
CloseOpen_Drop(ts, t) == ts

CloseOpen(ts, t) == ts \o t

\* Table mode after an in-table line that is not a row: `in_table = False`
TableModeAfterNonRow_Stays == TRUE

TableModeAfterNonRow == FALSE

\* Table mode after a record header: `in_table = False`
TableModeAfterHeader_Keeps == in_table

TableModeAfterHeader == FALSE

\* The status after float() or the unpacking of a pair raised: the exception
\* is not caught, parse_ptd_file is left
OnConversionError_Skip == "reading"

OnConversionError == "failed"

\* One iteration of `for line in fh` on the stripped line l
ParseLine(l) ==
    /\ pstatus = "reading"
    /\ path_state = "readable"
    /\ UNCHANGED notParser
    /\ UNCHANGED path_state
    /\ InputPrefix(Append(lines, l))
    /\ lines' = Append(lines, l)
    /\ IF l.k = "blank"
       THEN UNCHANGED <<tendons, tendon, in_table, pstatus>>
       ELSE IF l.k = "header"
       THEN /\ tendons' = CloseOpen(tendons, tendon)
            /\ tendon' = <<NewTendon(l.v[1])>>
            /\ in_table' = TableModeAfterHeader
            /\ UNCHANGED pstatus
       ELSE IF tendon = <<>>
       THEN UNCHANGED <<tendons, tendon, in_table, pstatus>>
       ELSE IF l.k \in FieldKinds
       THEN IF l.bad
            THEN /\ pstatus' = OnConversionError
                 /\ UNCHANGED <<tendons, tendon, in_table>>
            ELSE /\ tendon' = <<FieldUpdate(tendon[1], l)>>
                 /\ UNCHANGED <<tendons, in_table, pstatus>>
       ELSE IF l.k = "table_start"
       THEN /\ in_table' = TRUE
            /\ UNCHANGED <<tendons, tendon, pstatus>>
       ELSE IF in_table
       THEN IF l.k = "row"
            THEN IF l.bad
                 THEN /\ pstatus' = OnConversionError
                      /\ UNCHANGED <<tendons, tendon, in_table>>
                 ELSE /\ tendon' = <<[tendon[1] EXCEPT
                                        !.points = Append(@, RowPoint(l.v))]>>
                      /\ UNCHANGED <<tendons, in_table, pstatus>>
            ELSE /\ in_table' = TableModeAfterNonRow
                 /\ UNCHANGED <<tendons, tendon, pstatus>>
       ELSE UNCHANGED <<tendons, tendon, in_table, pstatus>>
    /\ raised' = IF pstatus' = "failed" THEN "ValueError" ELSE raised

\* `if not path.exists(): raise PTDParsingError`
ParseMissing ==
    /\ pstatus = "start"
    /\ UNCHANGED notParser
    /\ path_state = "missing"
    /\ pstatus' = "failed"
    /\ raised' = "PTDParsingError"
    /\ UNCHANGED <<lines, tendons, tendon, in_table, path_state>>

\* path.open raises (a directory, no permission): the exception is not caught
ParseOpenDenied ==
    /\ pstatus = "start"
    /\ UNCHANGED notParser
    /\ path_state = "denied"
    /\ pstatus' = "failed"
    /\ raised' = "OSError"
    /\ UNCHANGED <<lines, tendons, tendon, in_table, path_state>>

\* path.open succeeds
ParseOpen ==
    /\ pstatus = "start"
    /\ UNCHANGED notParser
    /\ path_state \in {"readable", "undecodable"}
    /\ pstatus' = "reading"
    /\ UNCHANGED <<lines, tendons, tendon, in_table, path_state, raised>>

\* `for line in fh` on a file that is not UTF-8 text: the first read raises
\* (the file is shorter than one buffer), the exception is not caught
ReadUndecodable ==
    /\ pstatus = "reading"
    /\ UNCHANGED notParser
    /\ path_state = "undecodable"
    /\ pstatus' = "failed"
    /\ raised' = "UnicodeDecodeError"
    /\ UNCHANGED <<lines, tendons, tendon, in_table, path_state>>

ReadLine == \E l \in AllShapes : ParseLine(l)

\* End of input: the open record is emitted and TendonSet(tendons) returned
ParseFinish ==
    /\ pstatus = "reading"
    /\ path_state = "readable"
    /\ UNCHANGED notParser
    /\ tendons' = CloseOpen(tendons, tendon)
    /\ tendon' = <<>>
    /\ pstatus' = "done"
    /\ UNCHANGED <<lines, in_table, path_state, raised>>

ParserInit ==
    /\ lines = <<>>
    /\ tendons = <<>>
    /\ tendon = <<>>
    /\ in_table = FALSE
    /\ pstatus = "start"
    /\ path_state \in {"missing", "denied", "undecodable", "readable"}
    /\ raised = ""

\* The parser is not running
ParserIdle ==
    /\ lines = <<>>
    /\ tendons = <<>>
    /\ tendon = <<>>
    /\ in_table = FALSE
    /\ pstatus = "idle"
    /\ path_state = "readable"
    /\ raised = ""

ParserNext ==
    \/ ParseMissing
    \/ ParseOpenDenied
    \/ ParseOpen
    \/ ReadUndecodable
    \/ ReadLine
    \/ ParseFinish

(***************************************************************************)
(* Parser: reference readings of the input, and the claims                 *)
(***************************************************************************)
HeaderIdx(ls) == {i \in 1..Len(ls) : ls[i].k = "header"}

NumHeaders(ls) == Cardinality(HeaderIdx(ls))

\* Position of the n-th header line
NthHeader(ls, n) ==
    CHOOSE i \in HeaderIdx(ls) : Cardinality({j \in HeaderIdx(ls) : j <= i}) = n

\* The lines of the n-th record block: after its header, up to the next header
Block(ls, n) ==
    SubSeq(ls, NthHeader(ls, n) + 1,
           IF n < NumHeaders(ls) THEN NthHeader(ls, n + 1) - 1 ELSE Len(ls))

KindIdx(b, k) == {i \in 1..Len(b) : b[i].k = k}

MaxOf(S) == CHOOSE x \in S : \A y \in S : y <= x

MinOf(S) == CHOOSE x \in S : \A y \in S : x <= y

\* tendon_type declared by the last Type line among the first i lines of b
TypeAt(b, i) ==
    LET T == {j \in KindIdx(b, "type") : j <= i}
    IN IF T = {} THEN 0 ELSE b[MaxOf(T)].v[1]

\* C4: one record per 'Tendon No.' header, in source order and with that
\* header's id; a record is closed at the next header or at end of input; lines
\* before the first header produce no record and change no state.
C4_OneRecordPerHeader ==
    /\ pstatus = "done" =>
         /\ tendon = <<>>
         /\ Len(tendons) = NumHeaders(lines)
         /\ \A n \in 1..Len(tendons) : tendons[n].id = lines[NthHeader(lines, n)].v[1]
    /\ (pstatus = "reading" /\ NumHeaders(lines) > 0) =>
         /\ Len(tendons) = NumHeaders(lines) - 1
         /\ Len(tendon) = 1
         /\ \A n \in 1..Len(tendons) : tendons[n].id = lines[NthHeader(lines, n)].v[1]
         /\ tendon[1].id = lines[NthHeader(lines, NumHeaders(lines))].v[1]
    /\ NumHeaders(lines) = 0 =>
         /\ tendons = <<>> /\ tendon = <<>> /\ in_table = FALSE
         /\ raised # "ValueError"

C4_Witness ==
    /\ pstatus = "done"
    /\ Len(lines) = 3
    /\ lines[1].k = "other" /\ lines[2] = LHeader(2) /\ lines[3] = LHeader(1)
    /\ Len(tendons) = 2 /\ tendons[1].id = 2 /\ tendons[2].id = 1

\* The complete block of the claim C2: header, every field line, a table
IsFullBlock(ls) ==
    /\ Len(ls) >= 8
    /\ ls[1].k = "header" /\ ls[2].k = "length" /\ ls[3].k = "coords"
    /\ ls[4].k = "type" /\ ls[5].k = "strand_type" /\ ls[6].k = "strand_no"
    /\ ls[7].k = "table_start"
    /\ \A i \in 8..Len(ls) : ls[i].k = "row"
    /\ \A i \in 1..Len(ls) : ~ls[i].bad

\* metres to millimetres of a literal <<w, f>>, in units of 1/FracDen mm
MetresToMm(lit) == (lit[1] * 1000 + lit[2]) * 1000

\* C2: a block with a header, every field line and a profile table yields
\* exactly one record with the declared values (metres x 1000) and one profile
\* point per row: distance = L column x 1000, height = H column x 1000
\* truncated; for the example block the points are (0.0, 0) and (3500.0, 25).
C2_FullBlockRecord ==
    (pstatus = "done" /\ IsFullBlock(lines)) =>
        /\ Len(tendons) = 1
        /\ tendons[1].id = lines[1].v[1]
        /\ tendons[1].length_mm = MetresToMm(lines[2].v[1])
        /\ tendons[1].start_xy_mm = <<MetresToMm(lines[3].v[1]), MetresToMm(lines[3].v[2])>>
        /\ tendons[1].end_xy_mm = <<MetresToMm(lines[3].v[3]), MetresToMm(lines[3].v[4])>>
        /\ tendons[1].tendon_type = lines[4].v[1]
        /\ tendons[1].strand_type = lines[5].v[1][1] * 1000 + lines[5].v[1][2]
        /\ tendons[1].strand_count = lines[6].v[1]
        /\ Len(tendons[1].points) = Len(lines) - 7
        /\ \A i \in 1..(Len(lines) - 7) :
             /\ tendons[1].points[i].distance_mm = MetresToMm(lines[7 + i].v[2])
             /\ tendons[1].points[i].height_mm = MetresToMm(lines[7 + i].v[3]) \div 1000
        /\ lines = ExampleBlock =>
             tendons[1].points = << TendonPoint(0, 0), TendonPoint(3500 * 1000, 25) >>

\* Rows that become profile points when every in-table line that is not a row
\* (blank lines and field lines included) ends the table
RECURSIVE RowsAnyLineEnds(_, _, _)
RowsAnyLineEnds(b, i, on) ==
    IF i > Len(b) THEN <<>>
    ELSE IF b[i].k = "table_start" THEN RowsAnyLineEnds(b, i + 1, TRUE)
    ELSE IF on /\ b[i].k = "row" THEN <<b[i]>> \o RowsAnyLineEnds(b, i + 1, TRUE)
    ELSE RowsAnyLineEnds(b, i + 1, FALSE)

\* Rows that become profile points when only a non-blank line that matches no
\* pattern of the chain ends the table, and table mode at the end of the block
RECURSIVE ScanTable(_, _, _, _)
ScanTable(b, i, on, rows) ==
    IF i > Len(b) THEN [on |-> on, rows |-> rows]
    ELSE IF b[i].k = "table_start" THEN ScanTable(b, i + 1, TRUE, rows)
    ELSE IF b[i].k \in {"blank"} \cup FieldKinds THEN ScanTable(b, i + 1, on, rows)
    ELSE IF on /\ b[i].k = "row" THEN ScanTable(b, i + 1, TRUE, Append(rows, b[i]))
    ELSE ScanTable(b, i + 1, FALSE, rows)

PointsOfRows(rows) == [i \in 1..Len(rows) |-> RowPoint(rows[i].v)]

\* C5 as stated: in table mode any line that is not a row, a blank line
\* included, ends the table; later rows of the record are not added unless a
\* new table-start marker is seen.
C5_AnyNonRowEndsTable ==
    pstatus = "done" =>
        \A n \in 1..Len(tendons) :
            tendons[n].points = PointsOfRows(RowsAnyLineEnds(Block(lines, n), 1, FALSE))

\* C5 amended: in table mode a non-blank line that matches none of the field,
\* end-marker, table-start or row patterns ends the table, and later rows of
\* the record are not added until a new table-start marker; blank lines are
\* skipped and field and end-marker lines are consumed without leaving table
\* mode.
C5_UnmatchedLineEndsTable ==
    /\ pstatus = "done" =>
        \A n \in 1..Len(tendons) :
            tendons[n].points = PointsOfRows(ScanTable(Block(lines, n), 1, FALSE, <<>>).rows)
    /\ (pstatus = "reading" /\ tendon # <<>>) =>
        LET r == ScanTable(Block(lines, NumHeaders(lines)), 1, FALSE, <<>>)
        IN /\ in_table = r.on
           /\ tendon[1].points = PointsOfRows(r.rows)

C5_Witness ==
    /\ pstatus = "done"
    /\ lines = <<LHeader(1), LTableStart, RowA, LOther, RowA>>
    /\ Len(tendons[1].points) = 1

\* Last marker line of kind k of block b (0: none)
LastMarker(b, k) == IF KindIdx(b, k) = {} THEN 0 ELSE MaxOf(KindIdx(b, k))

\* C6 as stated: an explicit Live End marker makes the end pan if the
\* record's tendon_type is 2 and stressed otherwise; Dead End makes it dead.
C6_MarkerKindByRecordType ==
    pstatus = "done" =>
        \A n \in 1..Len(tendons) :
            LET b == Block(lines, n)
                ms == LastMarker(b, "start")
                me == LastMarker(b, "end")
            IN /\ ms > 0 => tendons[n].start_type =
                    (IF b[ms].s = "Live End"
                     THEN (IF tendons[n].tendon_type = 2 THEN KindPan ELSE KindStressed)
                     ELSE KindDead)
               /\ me > 0 => tendons[n].end_type =
                    (IF b[me].s = "Live End"
                     THEN (IF tendons[n].tendon_type = 2 THEN KindPan ELSE KindStressed)
                     ELSE KindDead)

\* C6 amended: the kind is decided when the marker line is read: a Live End
\* marker makes the end pan if the tendon_type declared by the Type lines that
\* precede the marker in the record is 2 and stressed otherwise (a Type line
\* after the marker does not change it); a Dead End marker makes it dead.
C6_MarkerKindByTypeSoFar ==
    pstatus = "done" =>
        \A n \in 1..Len(tendons) :
            LET b == Block(lines, n)
                ms == LastMarker(b, "start")
                me == LastMarker(b, "end")
            IN /\ ms > 0 => tendons[n].start_type =
                    (IF b[ms].s = "Live End"
                     THEN (IF TypeAt(b, ms) = 2 THEN KindPan ELSE KindStressed)
                     ELSE KindDead)
               /\ me > 0 => tendons[n].end_type =
                    (IF b[me].s = "Live End"
                     THEN (IF TypeAt(b, me) = 2 THEN KindPan ELSE KindStressed)
                     ELSE KindDead)

C6_Witness ==
    /\ pstatus = "done"
    /\ lines = <<LHeader(1), LType(2), LStart("Live End")>>
    /\ tendons[1].start_type = KindPan

\* C7: with no explicit end markers the record has start_kind = stressed and
\* end_kind = dead: the value an explicit 'End: Dead End' produces, and not
\* the value a live end of a pan tendon produces.
C7_DefaultKinds ==
    pstatus = "done" =>
        \A n \in 1..Len(tendons) :
            (LastMarker(Block(lines, n), "start") = 0
               /\ LastMarker(Block(lines, n), "end") = 0) =>
                /\ tendons[n].start_type = KindStressed
                /\ tendons[n].end_type = MarkerKind("Dead End", tendons[n].tendon_type)
                /\ tendons[n].end_type # MarkerKind("Live End", TypePan)

\* The literal written on line l is not a number
IsMalformed(l) ==
    \/ l.bad
    \/ l.k = "unmatched_length"
    \/ l.k \in {"type", "strand_no", "row"} /\ l.s # ""

\* Line l is read as a field line: a record is open, and for a table row the
\* table mode is on
RecognisedAt(l) == tendon # <<>> /\ (l.k = "row" => in_table)

\* The step reads line l
JustRead(l) == lines' = Append(lines, l)

\* C18 as stated: a malformed numeric literal in a recognised field line
\* (length, coordinates, tendon type, strand type, strand count, table row)
\* makes the whole parse fail with the conversion error.
C18_MalformedLiteralFails ==
    [][\A l \in AllShapes :
          (JustRead(l) /\ IsMalformed(l) /\ RecognisedAt(l)) =>
              (pstatus' = "failed" /\ raised' = "ValueError")]_vars

\* C18 amended: a literal that the pattern of its field captures and float()
\* rejects (coordinates, strand type, the distance and the fourth column of a
\* table row) makes the whole parse fail with the conversion error, and
\* nothing is returned afterwards.  A length line whose literal is malformed
\* matches no pattern and is skipped with the length left as it was; a type or
\* strand-count line is read by its leading digits; a malformed third column
\* of a row is never converted and the row yields its point.
C18_CapturedMalformedLiteralFails ==
    [][/\ \A l \in AllShapes :
             (JustRead(l) /\ IsMalformed(l) /\ RecognisedAt(l)) =>
                 IF l.bad
                 THEN /\ pstatus' = "failed"
                      /\ raised' = "ValueError"
                      /\ UNCHANGED <<tendons, tendon>>
                 ELSE /\ pstatus' = "reading"
                      /\ raised' = ""
                      /\ tendons' = tendons
                      /\ CASE l.k = "unmatched_length" -> tendon' = tendon
                           [] l.k = "type" ->
                                tendon' = <<[tendon[1] EXCEPT !.tendon_type = l.v[1]]>>
                           [] l.k = "strand_no" ->
                                tendon' = <<[tendon[1] EXCEPT !.strand_count = l.v[1]]>>
                           [] l.k = "row" ->
                                tendon' = <<[tendon[1] EXCEPT
                                               !.points = Append(@, RowPoint(l.v))]>>
       /\ pstatus = "failed" => pstatus' = "failed"]_vars

\* A length line with a malformed literal was passed with the length at its
\* default, and the malformed coordinates after it made the parse fail
C18_Witness ==
    /\ lines = <<LHeader(1), LLengthUnmatched, LCoordsBad>>
    /\ pstatus = "failed"
    /\ raised = "ValueError"
    /\ tendon[1].length_mm = 0
    /\ tendons = <<>>

\* C19: parse_ptd_file fails with PTDParsingError, and returns nothing, both
\* when the named file does not exist and when it exists and cannot be read.
C19_MissingOrUnreadableRaisesParsingError ==
    path_state # "readable" =>
        /\ pstatus # "done"
        /\ tendons = <<>>
        /\ pstatus = "failed" => raised = "PTDParsingError"

\* A table-start marker was read after the header of the open record
TableStartSeen(ls) ==
    /\ HeaderIdx(ls) # {}
    /\ \E i \in (MaxOf(HeaderIdx(ls)) + 1)..Len(ls) : ls[i].k = "table_start"

\* C30: a record header resets table mode: the record it opens has no points
\* and a row-shaped line leaves it as it was until a table-start marker has
\* been read after that header; a point is appended only to the record that
\* is open when its row is read, and an emitted record never changes again.
C30_HeaderResetsTableMode ==
    [][/\ \A l \in AllShapes :
             JustRead(l) =>
                 /\ l.k = "header" =>
                        /\ in_table' = FALSE
                        /\ tendon'[1].points = <<>>
                 /\ (l.k = "row" /\ ~TableStartSeen(lines)) => tendon' = tendon
                 /\ (l.k # "header" /\ tendon # <<>> /\ tendon'[1].points # tendon[1].points) =>
                        /\ l.k = "row"
                        /\ TableStartSeen(lines)
                        /\ tendon'[1].points = Append(tendon[1].points, RowPoint(l.v))
       /\ Len(tendons') >= Len(tendons)
       /\ \A n \in 1..Len(tendons) : tendons'[n] = tendons[n]
       /\ tendons' # tendons => tendons' = tendons \o tendon]_vars

\* The first record has its table row; the second record was opened and a
\* row-shaped line read without a table-start marker left it without points
C30_Witness ==
    /\ lines = <<LHeader(1), LTableStart, RowA, LHeader(2), RowA>>
    /\ Len(tendons) = 1
    /\ tendons[1].points = <<RowPoint(RowA.v)>>
    /\ tendon[1].points = <<>>
    /\ in_table = FALSE


(***************************************************************************)
(* GEOMETRY KERNEL                                                         *)
(***************************************************************************)
\* Bounds of the point sets
GridMax == 2
MaxSeq == 3
MaxPts == 5

Grid == (0..GridMax) \X (0..GridMax)

\* _cross(o, a, b): 2-D cross product OA x OB
Cross_Swapped(o, a, b) ==
    (b[1] - o[1]) * (a[2] - o[2]) - (b[2] - o[2]) * (a[1] - o[1])

Cross(o, a, b) ==
    (a[1] - o[1]) * (b[2] - o[2]) - (a[2] - o[2]) * (b[1] - o[1])

\* Tuple order of Python: x, then y
LexLess(p, q) == p[1] < q[1] \/ (p[1] = q[1] /\ p[2] < q[2])

SeqToSet(sq) == {sq[i] : i \in 1..Len(sq)}

\* sorted(S) of a set of points
RECURSIVE SortedSet(_)
SortedSet(S) ==
    IF S = {} THEN <<>>
    ELSE LET m == CHOOSE p \in S : \A q \in S : q = p \/ LexLess(p, q)
         IN <<m>> \o SortedSet(S \ {m})

\* sorted(set(points))
SortedUnique(points) == SortedSet(SeqToSet(points))

Reverse(sq) == [i \in 1..Len(sq) |-> sq[Len(sq) + 1 - i]]

ButLast(sq) == SubSeq(sq, 1, Len(sq) - 1)

\* `while len(chain) >= 2 and _cross(chain[-2], chain[-1], p) <= 0: chain.pop()`
RECURSIVE PopWhile(_, _)
PopWhile(chain, p) ==
    IF Len(chain) >= 2 /\ Cross(chain[Len(chain) - 1], chain[Len(chain)], p) <= 0
    THEN PopWhile(ButLast(chain), p)
    ELSE chain

\* The chain after `for p in pts[i..]: <pop>; chain.append(p)`
RECURSIVE BuildChain(_, _, _)
BuildChain(chain, pts, i) ==
    IF i > Len(pts) THEN chain
    ELSE BuildChain(Append(PopWhile(chain, pts[i]), pts[i]), pts, i + 1)

\* `return lower[:-1] + upper[:-1]`
HullConcat_KeepEnds(lower, upper) == lower \o upper

HullConcat(lower, upper) == ButLast(lower) \o ButLast(upper)

\* convex_hull(points) as a function
ConvexHull(points) ==
    LET pts == SortedUnique(points)
    IN IF Len(pts) <= 1 THEN pts
       ELSE HullConcat(BuildChain(<<>>, pts, 1), BuildChain(<<>>, Reverse(pts), 1))

\* pt_in_convex: the loop over the edges from edge i on; sign is "none",
\* "pos" or "neg".  abs(cross) < 1e-9 is cross = 0 on integer coordinates.
RECURSIVE PtInConvexLoop(_, _, _, _)
PtInConvexLoop(pt, hull, i, sign) ==
    IF i > Len(hull) THEN TRUE
    ELSE LET a == hull[i]
             b == hull[(i % Len(hull)) + 1]
             cross == (pt[1] - a[1]) * (b[2] - a[2]) - (pt[2] - a[2]) * (b[1] - a[1])
             sg == IF cross > 0 THEN "pos" ELSE "neg"
         IN IF cross = 0 THEN PtInConvexLoop(pt, hull, i + 1, sign)
            ELSE IF sign = "none" THEN PtInConvexLoop(pt, hull, i + 1, sg)
            ELSE IF sign # sg THEN FALSE
            ELSE PtInConvexLoop(pt, hull, i + 1, sign)

PtInConvex_AnySize(pt, hull) == PtInConvexLoop(pt, hull, 1, "none")

PtInConvex(pt, hull) ==
    IF Len(hull) < 3 THEN FALSE ELSE PtInConvexLoop(pt, hull, 1, "none")

\* ---- convex_hull as a state machine ----
HullInputs ==
    UNION {[1..n -> Grid] : n \in 0..MaxSeq}
      \cup {Reverse(SortedSet(S)) : S \in {T \in SUBSET Grid : Cardinality(T) <= MaxPts}}

HullInit ==
    /\ h_points \in HullInputs
    /\ h_pts = <<>>
    /\ h_lower = <<>>
    /\ h_upper = <<>>
    /\ h_hull = <<>>
    /\ h_pc = "start"

HullIdle ==
    /\ h_points = <<>>
    /\ h_pts = <<>>
    /\ h_lower = <<>>
    /\ h_upper = <<>>
    /\ h_hull = <<>>
    /\ h_pc = "idle"

\* pts = sorted(set(points)); degenerate input is returned as it is
HullSort ==
    /\ h_pc = "start"
    /\ UNCHANGED notHull
    /\ h_pts' = SortedUnique(h_points)
    /\ IF Len(h_pts') <= 1
       THEN h_hull' = h_pts' /\ h_pc' = "done"
       ELSE h_hull' = h_hull /\ h_pc' = "lower"
    /\ UNCHANGED <<h_points, h_lower, h_upper>>

\* the loop that builds the lower chain
HullLower ==
    /\ h_pc = "lower"
    /\ UNCHANGED notHull
    /\ h_lower' = BuildChain(<<>>, h_pts, 1)
    /\ h_pc' = "upper"
    /\ UNCHANGED <<h_points, h_pts, h_upper, h_hull>>

\* the loop that builds the upper chain, over reversed(pts)
HullUpper_NotReversed ==
    /\ h_pc = "upper"
    /\ UNCHANGED notHull
    /\ h_upper' = BuildChain(<<>>, h_pts, 1)
    /\ h_pc' = "concat"
    /\ UNCHANGED <<h_points, h_pts, h_lower, h_hull>>

HullUpper ==
    /\ h_pc = "upper"
    /\ UNCHANGED notHull
    /\ h_upper' = BuildChain(<<>>, Reverse(h_pts), 1)
    /\ h_pc' = "concat"
    /\ UNCHANGED <<h_points, h_pts, h_lower, h_hull>>

HullReturn ==
    /\ h_pc = "concat"
    /\ UNCHANGED notHull
    /\ h_hull' = HullConcat(h_lower, h_upper)
    /\ h_pc' = "done"
    /\ UNCHANGED <<h_points, h_pts, h_lower, h_upper>>

HullNext == HullSort \/ HullLower \/ HullUpper \/ HullReturn

(***************************************************************************)
(* Geometry kernel: claims                                                 *)
(***************************************************************************)
\* Twice the signed (shoelace) area of a vertex sequence
RECURSIVE Shoelace2(_, _)
Shoelace2(h, i) ==
    IF i > Len(h) THEN 0
    ELSE LET a == h[i]
             b == h[(i % Len(h)) + 1]
         IN a[1] * b[2] - b[1] * a[2] + Shoelace2(h, i + 1)

\* p lies on the closed segment a-b
OnSegment(p, a, b) ==
    /\ Cross(a, b, p) = 0
    /\ (p[1] - a[1]) * (p[1] - b[1]) <= 0
    /\ (p[2] - a[2]) * (p[2] - b[2]) <= 0

\* Some three of the points are not collinear
HasTriangle(S) == \E a, b, c \in S : Cross(a, b, c) # 0

\* C8: every input point lies inside or on the boundary of the returned hull:
\* by pt_in_convex when the hull has at least 3 vertices, on the returned
\* segment or point otherwise.
C8_InputInsideHull ==
    h_pc = "done" =>
        \A p \in SeqToSet(h_points) :
            IF Len(h_hull) >= 3 THEN PtInConvex(p, h_hull)
            ELSE IF Len(h_hull) = 2 THEN OnSegment(p, h_hull[1], h_hull[2])
            ELSE Len(h_hull) = 1 /\ p = h_hull[1]

C8_Witness ==
    /\ h_pc = "done"
    /\ Len(h_hull) = 3
    /\ \E p \in SeqToSet(h_points) :
          \A i \in 1..3 : Cross(h_hull[i], h_hull[(i % 3) + 1], p) > 0

\* C9 as stated: the returned vertex sequence always has signed area > 0.
C9_AlwaysPositiveArea == h_pc = "done" => Shoelace2(h_hull, 1) > 0

\* C9 amended: for every point set with three non-collinear points the
\* returned sequence has at least 3 vertices in counter-clockwise order (signed
\* area > 0, every turn a strict left turn); a set with fewer than three
\* distinct points or with all points collinear yields at most two vertices,
\* whose signed area is 0.
C9_PositiveAreaUnlessDegenerate ==
    h_pc = "done" =>
        IF HasTriangle(SeqToSet(h_points))
        THEN /\ Len(h_hull) >= 3
             /\ Shoelace2(h_hull, 1) > 0
             /\ \A i \in 1..Len(h_hull) :
                  Cross(h_hull[i], h_hull[(i % Len(h_hull)) + 1],
                        h_hull[((i + 1) % Len(h_hull)) + 1]) > 0
        ELSE Len(h_hull) <= 2 /\ Shoelace2(h_hull, 1) = 0

C9_Witness ==
    /\ h_pc = "done"
    /\ Len(h_hull) = 4
    /\ Shoelace2(h_hull, 1) = 8

\* C10: every vertex of the hull is an input point and no vertex occurs twice
\* (the first vertex is not repeated at the end).
C10_VerticesAreDistinctInputs ==
    h_pc = "done" =>
        /\ \A i \in 1..Len(h_hull) : h_hull[i] \in SeqToSet(h_points)
        /\ \A i, j \in 1..Len(h_hull) : i # j => h_hull[i] # h_hull[j]

C10_Witness ==
    /\ h_pc = "done"
    /\ Len(h_hull) = 2
    /\ Len(h_points) = 3
    /\ h_points[1] = h_points[3]


(***************************************************************************)
(* GROUPING ENGINE                                                         *)
(* Lengths are compared through their squares, so that a length computed   *)
(* from the geometry (a square root) is compared exactly.                  *)
(***************************************************************************)
\* Bound of the tendon collection
MaxTendons == 3

\* A tendon as group_tendons sees it: start, end (plan points), length
\* (0 stands for a missing or zero attribute), tendon_points
Tendon(s, e, len, prof) == [start |-> s, end |-> e, length |-> len, tendon_points |-> prof]

ProfileA == << <<0, 10>>, <<2, 5>> >>
ProfileB == << <<0, 10>>, <<2, 6>> >>

TendonShapes ==
    { Tendon(<<0, 0>>, <<4, 0>>, 0, ProfileA),
      Tendon(<<0, 1>>, <<4, 1>>, 0, ProfileA),
      Tendon(<<4, 0>>, <<0, 0>>, 4, ProfileA),
      Tendon(<<0, 0>>, <<3, 3>>, 0, ProfileA),
      Tendon(<<0, 0>>, <<4, 0>>, 5, ProfileA),
      Tendon(<<0, 0>>, <<4, 0>>, 0, ProfileB),
      Tendon(<<1, 1>>, <<1, 1>>, 0, ProfileA),
      Tendon(<<1, 0>>, <<2, 0>>, 0, ProfileA),
      Tendon(<<1, 0>>, <<1, 0>>, 4, ProfileA),
      Tendon(<<0, 0>>, <<0, 4>>, 0, ProfileA),
      Tendon(<<0, 0>>, <<4, 2>>, 4, ProfileA),
      Tendon(<<0, 0>>, <<2, 4>>, 4, ProfileA) }

\* Tolerances.  angle_tol is a number of degrees in [0, 90] given with
\* cos^2 of it as the fraction cos2[1] / cos2[2] (5 degrees: 0.9924).
Tol(deg, cos2, len, dist, height, spacing, shift) ==
    [ angle_tol |-> deg, cos2 |-> cos2, length_tol |-> len, dist_tol |-> dist,
      height_tol |-> height, spacing_tol |-> spacing, shift_tol |-> shift ]

TolConfigs ==
    { Tol(5, <<9924, 10000>>, 0, 0, 0, 1, 0),
      Tol(45, <<1, 2>>, 1, 0, 1, 0, 4),
      Tol(90, <<0, 1>>, 4, 1, 1, 1, 1) }

Sub(p, q) == <<p[1] - q[1], p[2] - q[2]>>

Dot(u, v) == u[1] * v[1] + u[2] * v[2]

NormSq(v) == Dot(v, v)

\* Square of base_len / other_len: the length attribute, or the plan length
\* when the attribute is missing or 0
EffLenSq(t) ==
    IF t.length = 0 THEN NormSq(Sub(t.start, t.end)) ELSE t.length * t.length

\* 1. Direction: _angle_between folded to [0, 90] is at most angle_tol.  A zero
\* vector is returned unnormalised by _direction, so its angle to anything
\* is acos(0) = 90.
DirectionOK(base, other, tol) ==
    LET u == Sub(base.start, base.end)
        v == Sub(other.start, other.end)
    IN IF NormSq(u) = 0 \/ NormSq(v) = 0
       THEN 90 <= tol.angle_tol
       ELSE Dot(u, v) * Dot(u, v) * tol.cos2[2] >= tol.cos2[1] * NormSq(u) * NormSq(v)

\* 2a. Perpendicular offset |cross| / base_len <= spacing_tol
OffsetOK(base, other, tol) ==
    LET bd == Sub(base.start, base.end)
        ds == Sub(other.start, base.start)
        cr == ds[1] * bd[2] - ds[2] * bd[1]
    IN cr * cr <= tol.spacing_tol * tol.spacing_tol * EffLenSq(base)

\* 2b. Longitudinal shift |dot| / base_len <= shift_tol
ShiftOK(base, other, tol) ==
    LET bd == Sub(base.start, base.end)
        ds == Sub(other.start, base.start)
        dt == ds[1] * bd[1] + ds[2] * bd[2]
    IN dt * dt <= tol.shift_tol * tol.shift_tol * EffLenSq(base)

\* |sqrt(a) - sqrt(b)| <= t for a, b, t >= 0
SqrtDiffLeq(a, b, t) ==
    LET k == a + b - t * t
    IN k <= 0 \/ k * k <= 4 * a * b

\* |len - sqrt(n)| <= t for len, n, t >= 0
SqrtNear(len, n, t) ==
    /\ len - t <= 0 \/ (len - t) * (len - t) <= n
    /\ n <= (len + t) * (len + t)

\* 3. Length: abs(base_len - other_len) <= length_tol.  A length attribute is
\* compared as it is, a plan length through its square.
LengthOK(base, other, tol) ==
    CASE base.length # 0 /\ other.length # 0 ->
             Abs(base.length - other.length) <= tol.length_tol
      [] base.length # 0 /\ other.length = 0 ->
             SqrtNear(base.length, EffLenSq(other), tol.length_tol)
      [] base.length = 0 /\ other.length # 0 ->
             SqrtNear(other.length, EffLenSq(base), tol.length_tol)
      [] OTHER -> SqrtDiffLeq(EffLenSq(base), EffLenSq(other), tol.length_tol)

\* 4. _profiles_match
ProfilesMatch(p1, p2, dist_tol, height_tol) ==
    /\ Len(p1) = Len(p2)
    /\ \A i \in 1..Len(p1) :
         /\ Abs(p1[i][1] - p2[i][1]) <= dist_tol
         /\ Abs(p1[i][2] - p2[i][2]) <= height_tol

\* The body of the inner loop: other passes every check against base
Matches_NoLength(base, other, tol) ==
    /\ DirectionOK(base, other, tol)
    /\ OffsetOK(base, other, tol)
    /\ ShiftOK(base, other, tol)
    /\ ProfilesMatch(base.tendon_points, other.tendon_points, tol.dist_tol, tol.height_tol)

Matches_NoProfile(base, other, tol) ==
    /\ DirectionOK(base, other, tol)
    /\ OffsetOK(base, other, tol)
    /\ ShiftOK(base, other, tol)
    /\ LengthOK(base, other, tol)

Matches(base, other, tol) ==
    /\ DirectionOK(base, other, tol)
    /\ OffsetOK(base, other, tol)
    /\ ShiftOK(base, other, tol)
    /\ LengthOK(base, other, tol)
    /\ ProfilesMatch(base.tendon_points, other.tendon_points, tol.dist_tol, tol.height_tol)

\* The tendons of `rest` appended to the group of base, in order
Matched_FirstOnly(ts, base, rest, tol) ==
    LET all == SelectSeq(rest, LAMBDA j : Matches(ts[base], ts[j], tol))
    IN IF all = <<>> THEN <<>> ELSE <<Head(all)>>

Matched_Reversed(ts, base, rest, tol) ==
    Reverse(SelectSeq(rest, LAMBDA j : Matches(ts[base], ts[j], tol)))

Matched(ts, base, rest, tol) ==
    SelectSeq(rest, LAMBDA j : Matches(ts[base], ts[j], tol))

\* `ungrouped` after the inner loop: the matched ones removed
Remaining_KeepAll(ts, base, rest, tol) == rest

Remaining_DropFirstOnly(ts, base, rest, tol) ==
    LET all == SelectSeq(rest, LAMBDA j : Matches(ts[base], ts[j], tol))
    IN IF all = <<>> THEN rest ELSE SelectSeq(rest, LAMBDA j : j # Head(all))

Remaining(ts, base, rest, tol) ==
    SelectSeq(rest, LAMBDA j : ~Matches(ts[base], ts[j], tol))

\* Three tendons along one axis with length attributes 10000, 10005 and 9990,
\* and one of length 10000 at 45 degrees to them, under angle_tol 5 and
\* length_tol 20
ScenarioTendons ==
    { Tendon(<<0, 0>>, <<4, 0>>, 10000, ProfileA),
      Tendon(<<0, 0>>, <<4, 0>>, 10005, ProfileA),
      Tendon(<<0, 0>>, <<4, 0>>, 9990, ProfileA),
      Tendon(<<0, 0>>, <<3, 3>>, 10000, ProfileA) }

ScenarioInputs ==
    {sq \in [1..Cardinality(ScenarioTendons) -> ScenarioTendons] :
        \A i, j \in DOMAIN sq : i # j => sq[i] # sq[j]}

ScenarioTol == Tol(5, <<9924, 10000>>, 20, 0, 5, 4, 2)

GroupInit ==
    /\ \/ /\ g_tendons \in UNION {[1..n -> TendonShapes] : n \in 0..MaxTendons}
          /\ g_tol \in TolConfigs
       \/ /\ g_tendons \in ScenarioInputs
          /\ g_tol = ScenarioTol
    /\ g_ungrouped = [i \in 1..Len(g_tendons) |-> i]
    /\ g_groups = <<>>
    /\ g_pc = "loop"

GroupIdle ==
    /\ g_tendons = <<>>
    /\ g_tol = <<>>
    /\ g_ungrouped = <<>>
    /\ g_groups = <<>>
    /\ g_pc = "idle"

\* An iteration of `while ungrouped` whose base has zero length: `continue`
GroupSkipDegenerate_Forms ==
    /\ g_pc = "loop"
    /\ UNCHANGED notGroup
    /\ g_ungrouped # <<>>
    /\ EffLenSq(g_tendons[Head(g_ungrouped)]) = 0
    /\ g_groups' = Append(g_groups, <<Head(g_ungrouped)>>)
    /\ g_ungrouped' = Tail(g_ungrouped)
    /\ UNCHANGED <<g_tendons, g_tol, g_pc>>

GroupSkipDegenerate ==
    /\ g_pc = "loop"
    /\ UNCHANGED notGroup
    /\ g_ungrouped # <<>>
    /\ EffLenSq(g_tendons[Head(g_ungrouped)]) = 0
    /\ g_ungrouped' = Tail(g_ungrouped)
    /\ UNCHANGED <<g_tendons, g_tol, g_groups, g_pc>>

\* An iteration of `while ungrouped` that forms the group of base
GroupForm ==
    /\ g_pc = "loop"
    /\ UNCHANGED notGroup
    /\ g_ungrouped # <<>>
    /\ EffLenSq(g_tendons[Head(g_ungrouped)]) # 0
    /\ LET base == Head(g_ungrouped)
           rest == Tail(g_ungrouped)
       IN /\ g_groups' = Append(g_groups, <<base>> \o Matched(g_tendons, base, rest, g_tol))
          /\ g_ungrouped' = Remaining(g_tendons, base, rest, g_tol)
    /\ UNCHANGED <<g_tendons, g_tol, g_pc>>

\* `return groups`
GroupReturn ==
    /\ g_pc = "loop"
    /\ UNCHANGED notGroup
    /\ g_ungrouped = <<>>
    /\ g_pc' = "done"
    /\ UNCHANGED <<g_tendons, g_tol, g_ungrouped, g_groups>>

GroupNext == GroupSkipDegenerate \/ GroupForm \/ GroupReturn

(***************************************************************************)
(* Grouping engine: claims                                                 *)
(***************************************************************************)
\* Number of places of the returned groups that hold tendon i
Occurrences(groups, i) ==
    Cardinality({pos \in (1..Len(groups)) \X (1..MaxTendons + 1) :
                    pos[2] <= Len(groups[pos[1]]) /\ groups[pos[1]][pos[2]] = i})

\* C1 as stated: the returned groups partition the input: every input tendon
\* appears in exactly one group.
C1_GroupsPartitionInput ==
    g_pc = "done" =>
        \A i \in 1..Len(g_tendons) : Occurrences(g_groups, i) = 1

\* C1 amended: every input tendon appears in at most one returned group, and
\* every tendon whose length (the attribute, or the plan length when the
\* attribute is missing or 0) is not zero appears in exactly one; a tendon
\* that is in no group is a zero-length tendon, which is dropped when it is
\* picked as representative.
C1_PartitionExceptZeroLength ==
    g_pc = "done" =>
        /\ \A g \in 1..Len(g_groups) : \A k \in 1..Len(g_groups[g]) :
              g_groups[g][k] \in 1..Len(g_tendons)
        /\ \A i \in 1..Len(g_tendons) :
              /\ Occurrences(g_groups, i) <= 1
              /\ EffLenSq(g_tendons[i]) # 0 => Occurrences(g_groups, i) = 1

C1_Witness ==
    /\ g_pc = "done"
    /\ Len(g_tendons) = 3
    /\ Len(g_groups) = 1 /\ Len(g_groups[1]) = 2
    /\ \E i \in 1..3 : Occurrences(g_groups, i) = 0


\* The groups that hold tendon i
GroupsOf(groups, i) ==
    {k \in 1..Len(groups) : \E m \in 1..Len(groups[k]) : groups[k][m] = i}

\* Two tendons of identical length, parallel within angle_tol, with zero
\* offset between them (the same start point) and identical profiles
AlikePair(x, y, tol) ==
    /\ EffLenSq(x) = EffLenSq(y)
    /\ DirectionOK(x, y, tol)
    /\ x.start = y.start
    /\ x.tendon_points = y.tendon_points

\* C13 as stated: two tendons of identical length, parallel within angle_tol,
\* with zero offset and identical profiles are in the same returned group.
C13_AlikeTendonsShareGroup ==
    g_pc = "done" =>
        \A i, j \in 1..Len(g_tendons) :
            (i # j /\ AlikePair(g_tendons[i], g_tendons[j], g_tol)) =>
                GroupsOf(g_groups, i) \cap GroupsOf(g_groups, j) # {}

\* C13 amended: when one of two such tendons is the representative of a
\* returned group and the other has not been placed in an earlier group, the
\* other is in the representative's group.
C13_AlikeToRepresentativeShareGroup ==
    g_pc = "done" =>
        \A k \in 1..Len(g_groups) : \A j \in 1..Len(g_tendons) :
            ( /\ j # g_groups[k][1]
              /\ AlikePair(g_tendons[g_groups[k][1]], g_tendons[j], g_tol)
              /\ \A e \in 1..(k - 1) : e \notin GroupsOf(g_groups, j) )
            => k \in GroupsOf(g_groups, j)

\* Two alike tendons in different groups, the first of them grouped with a
\* representative the second does not match, and the second a representative
\* itself with an alike member
C13_Witness ==
    /\ g_pc = "done"
    /\ Len(g_tendons) = 3
    /\ \E i, j \in 1..3 :
          /\ i # j
          /\ AlikePair(g_tendons[i], g_tendons[j], g_tol)
          /\ GroupsOf(g_groups, i) # {} /\ GroupsOf(g_groups, j) # {}
          /\ GroupsOf(g_groups, i) \cap GroupsOf(g_groups, j) = {}
    /\ \E k \in 1..Len(g_groups) :
          /\ Len(g_groups[k]) >= 2
          /\ AlikePair(g_tendons[g_groups[k][1]], g_tendons[g_groups[k][2]], g_tol)

\* Tendon j was still ungrouped when the representative of group k was picked
CandidateOf(groups, k, j) ==
    /\ j > groups[k][1]
    /\ \A e \in 1..(k - 1) : e \notin GroupsOf(groups, j)

\* Direction, plan offset and shift, and profile all pass
PassesAllButLength(base, other, tol) ==
    /\ DirectionOK(base, other, tol)
    /\ OffsetOK(base, other, tol)
    /\ ShiftOK(base, other, tol)
    /\ ProfilesMatch(base.tendon_points, other.tendon_points, tol.dist_tol, tol.height_tol)

\* The tendons of the scenario, by their place in the input
ScenarioAxial == {i \in 1..Len(g_tendons) : g_tendons[i].end = <<4, 0>>}

ScenarioRotated == {i \in 1..Len(g_tendons) : g_tendons[i].end = <<3, 3>>}

\* C14: a candidate that passes direction, plan offset and profile is grouped
\* with the representative exactly when their lengths differ by at most
\* length_tol; a tendon whose direction differs from the representative's by
\* more than angle_tol is never in its group; in the scenario the three axial
\* tendons form one group and the rotated one a singleton group.
C14_LengthAndDirectionDecide ==
    g_pc = "done" =>
        /\ \A k \in 1..Len(g_groups) : \A j \in 1..Len(g_tendons) :
              (CandidateOf(g_groups, k, j)
                 /\ PassesAllButLength(g_tendons[g_groups[k][1]], g_tendons[j], g_tol))
              => (k \in GroupsOf(g_groups, j)
                    <=> LengthOK(g_tendons[g_groups[k][1]], g_tendons[j], g_tol))
        /\ \A k \in 1..Len(g_groups) : \A m \in 2..Len(g_groups[k]) :
              DirectionOK(g_tendons[g_groups[k][1]], g_tendons[g_groups[k][m]], g_tol)
        /\ g_tendons \in ScenarioInputs =>
              /\ Len(g_groups) = 2
              /\ \E k \in 1..2 : SeqToSet(g_groups[k]) = ScenarioAxial
              /\ \E k \in 1..2 : SeqToSet(g_groups[k]) = ScenarioRotated

\* The scenario has run, the rotated tendon between the axial ones
C14_Witness ==
    /\ g_pc = "done"
    /\ g_tendons \in ScenarioInputs
    /\ g_tol = ScenarioTol
    /\ g_tendons[2].end = <<3, 3>>
    /\ g_groups = << <<1, 3, 4>>, <<2>> >>

\* The input tendons not placed in a group before group k
Unplaced(groups, k, n) ==
    {i \in 1..n : \A e \in 1..(k - 1) : e \notin GroupsOf(groups, i)}

\* Inside every group the members are in input order, the representative first
MembersInInputOrder(groups) ==
    \A k \in 1..Len(groups) : \A m \in 1..(Len(groups[k]) - 1) :
        groups[k][m] < groups[k][m + 1]

\* C15 as stated: the representative of each group is the earliest input tendon
\* not placed in an earlier group, and inside each group the representative is
\* first and the other members follow in input order.
C15_RepresentativeIsEarliestUnplaced ==
    g_pc = "done" =>
        /\ \A k \in 1..Len(g_groups) :
              g_groups[k][1] = MinOf(Unplaced(g_groups, k, Len(g_tendons)))
        /\ MembersInInputOrder(g_groups)

\* C15 amended: the representative of each group is the earliest input tendon
\* of non-zero length not placed in an earlier group (zero-length tendons are
\* passed over), and inside each group the representative is first and the
\* other members follow in input order.
C15_RepresentativeIsEarliestUnplacedNonZero ==
    g_pc = "done" =>
        /\ \A k \in 1..Len(g_groups) :
              g_groups[k][1] =
                  MinOf({i \in Unplaced(g_groups, k, Len(g_tendons)) :
                            EffLenSq(g_tendons[i]) # 0})
        /\ MembersInInputOrder(g_groups)

\* A zero-length tendon comes first and is passed over; the next tendon is the
\* representative of a group of two
C15_Witness ==
    /\ g_pc = "done"
    /\ Len(g_tendons) = 3
    /\ EffLenSq(g_tendons[1]) = 0
    /\ g_groups = << <<2, 3>> >>

\* C16: in every returned group, every member other than the first passes
\* all four predicates (direction, plan offset and shift, length, profile)
\* against the first member, the representative.
C16_MembersMatchRepresentative ==
    g_pc = "done" =>
        \A k \in 1..Len(g_groups) : \A m \in 2..Len(g_groups[k]) :
            LET base == g_tendons[g_groups[k][1]]
                other == g_tendons[g_groups[k][m]]
            IN /\ DirectionOK(base, other, g_tol)
               /\ OffsetOK(base, other, g_tol)
               /\ ShiftOK(base, other, g_tol)
               /\ LengthOK(base, other, g_tol)
               /\ ProfilesMatch(base.tendon_points, other.tendon_points,
                                g_tol.dist_tol, g_tol.height_tol)

\* A group of three whose two members match the representative and not each
\* other
C16_Witness ==
    /\ g_pc = "done"
    /\ Len(g_groups) = 1
    /\ Len(g_groups[1]) = 3
    /\ ~Matches(g_tendons[g_groups[1][2]], g_tendons[g_groups[1][3]], g_tol)
    /\ ~Matches(g_tendons[g_groups[1][3]], g_tendons[g_groups[1][2]], g_tol)

\* A tendon of zero length: the length attribute missing or 0, and start
\* equal to end
ZeroLength(t) == t.length = 0 /\ t.start = t.end

\* C24: a tendon of zero length never becomes the representative of a group:
\* when it is picked from the remaining pool it is skipped and forms no
\* group, so it is in the output only as a later member of the group of a
\* representative that is not of zero length.
C24_ZeroLengthNeverRepresentative ==
    [][ /\ (g_ungrouped # <<>> /\ ZeroLength(g_tendons[Head(g_ungrouped)])) =>
              /\ g_groups' = g_groups
              /\ g_ungrouped' = Tail(g_ungrouped)
        /\ \A k \in 1..Len(g_groups') :
              /\ ~ZeroLength(g_tendons[g_groups'[k][1]])
              /\ \A m \in 2..Len(g_groups'[k]) :
                    ZeroLength(g_tendons[g_groups'[k][m]]) =>
                        Matches(g_tendons[g_groups'[k][1]], g_tendons[g_groups'[k][m]], g_tol) ]_vars

\* One zero-length tendon was skipped and is in no group, another was matched
\* into the group of a representative before its turn came
C24_Witness ==
    /\ g_pc = "done"
    /\ Len(g_tendons) = 3
    /\ ZeroLength(g_tendons[1])
    /\ ZeroLength(g_tendons[3])
    /\ g_groups = << <<2, 3>> >>

\* C26: the grouping is maximal with respect to earlier representatives: no
\* member of a later group passes all four predicates against the
\* representative (first member) of an earlier group.
C26_NoLaterMemberMatchesEarlierRepresentative ==
    g_pc = "done" =>
        \A k1, k2 \in 1..Len(g_groups) : \A m \in 1..Len(g_groups[k2]) :
            k1 < k2 =>
                LET base == g_tendons[g_groups[k1][1]]
                    other == g_tendons[g_groups[k2][m]]
                IN ~( /\ DirectionOK(base, other, g_tol)
                      /\ OffsetOK(base, other, g_tol)
                      /\ ShiftOK(base, other, g_tol)
                      /\ LengthOK(base, other, g_tol)
                      /\ ProfilesMatch(base.tendon_points, other.tendon_points,
                                       g_tol.dist_tol, g_tol.height_tol) )

\* Two groups; both members of the second pass every predicate but the
\* length against the representative of the first
C26_Witness ==
    /\ g_pc = "done"
    /\ Len(g_groups) = 2
    /\ Len(g_groups[2]) = 2
    /\ \A m \in 1..2 :
          /\ PassesAllButLength(g_tendons[g_groups[1][1]], g_tendons[g_groups[2][m]], g_tol)
          /\ ~LengthOK(g_tendons[g_groups[1][1]], g_tendons[g_groups[2][m]], g_tol)

(***************************************************************************)
(* ALIGNMENT ENGINE                                                        *)
(* Lengths are integers in units of 1/Scale ft, so that the centroid of a  *)
(* hull of up to four grid points is an integer.  A distance is carried as *)
(* its square.  Angles are whole quarter turns, which rotate exactly.      *)
(***************************************************************************)
\* Bounds of the tendon points: a grid 0..AlignMax squared, at most MaxAlignPts points
AlignMax == 1
MaxAlignPts == 3

Scale == 3 * 4

\* Quarter turns in 2*pi
FullTurn == 2 * 2

RECURSIVE SumCoord(_, _)
SumCoord(points, k) ==
    IF points = <<>> THEN 0 ELSE Head(points)[k] + SumCoord(Tail(points), k)

\* centroid: the average of the points, (0, 0) for none
Centroid(points) ==
    IF points = <<>> THEN <<0, 0>>
    ELSE <<SumCoord(points, 1) \div Len(points), SumCoord(points, 2) \div Len(points)>>

\* poly_bounds: (minX, maxX, minY, maxY), zeros for no point
PolyBounds(points) ==
    IF points = <<>> THEN <<0, 0, 0, 0>>
    ELSE LET xs == {points[i][1] : i \in 1..Len(points)}
             ys == {points[i][2] : i \in 1..Len(points)}
         IN <<MinOf(xs), MaxOf(xs), MinOf(ys), MaxOf(ys)>>

\* Square of _point_distance
PointDistanceSq(pa, pb) ==
    (pa[1] - pb[1]) * (pa[1] - pb[1]) + (pa[2] - pb[2]) * (pa[2] - pb[2])

\* Square of _directed_hausdorff
DirectedHausdorffSq(a, b) ==
    IF a = <<>> \/ b = <<>> THEN 0
    ELSE MaxOf({ MinOf({PointDistanceSq(a[i], b[j]) : j \in 1..Len(b)}) : i \in 1..Len(a) })

\* Square of directed_hausdorff_outside
DirectedHausdorffOutsideSq(a, hull) ==
    IF a = <<>> \/ hull = <<>> THEN 0
    ELSE LET outside_pts == SelectSeq(a, LAMBDA p : ~PtInConvex(p, hull))
         IN IF outside_pts = <<>> THEN 0 ELSE DirectedHausdorffSq(outside_pts, hull)

Translate(points, dx, dy) ==
    [i \in 1..Len(points) |-> <<points[i][1] + dx, points[i][2] + dy>>]

\* rotate by q quarter turns (counter-clockwise) around origin
Rotate(points, q, origin) ==
    LET cos_a == CASE q % 4 = 0 -> 1 [] q % 4 = 2 -> -1 [] OTHER -> 0
        sin_a == CASE q % 4 = 1 -> 1 [] q % 4 = 3 -> -1 [] OTHER -> 0
    IN [i \in 1..Len(points) |->
          LET tx == points[i][1] - origin[1]
              ty == points[i][2] - origin[2]
          IN <<tx * cos_a - ty * sin_a + origin[1], tx * sin_a + ty * cos_a + origin[2]>>]

\* sqrt(a) <= sqrt(b) + t for a, b, t >= 0
SqrtLeqPlus(a, b, t) ==
    LET k == a - b - t * t
    IN k <= 0 \/ k * k <= 4 * t * t * b

\* err <= max_error_ft + tolerance_ft
WithinTolerance_Always(errSq, cfg) == TRUE

WithinTolerance(errSq, cfg) ==
    errSq <= (cfg.max_error + cfg.tolerance) * (cfg.max_error + cfg.tolerance)

\* err > max_error_ft
ExceedsMaxError(errSq, cfg) == errSq > cfg.max_error * cfg.max_error

\* ---- _simple_fit ----
NoFit == [some |-> FALSE, err |-> 0, angle |-> 0, dx |-> 0, dy |-> 0]

Fit(err, angle, dx, dy) == [some |-> TRUE, err |-> err, angle |-> angle, dx |-> dx, dy |-> dy]

\* Step 1 of _simple_fit: the centroid candidate
SimpleCentroid_NoShift(slab_hull, tendon_hull) ==
    Fit(DirectedHausdorffOutsideSq(tendon_hull, slab_hull), 0, 0, 0)

SimpleCentroid(slab_hull, tendon_hull) ==
    LET tend_cent == Centroid(tendon_hull)
        slab_cent == Centroid(slab_hull)
        dx_c == slab_cent[1] - tend_cent[1]
        dy_c == slab_cent[2] - tend_cent[2]
    IN Fit(DirectedHausdorffOutsideSq(Translate(tendon_hull, dx_c, dy_c), slab_hull), 0, dx_c, dy_c)

\* Step 2 of _simple_fit: the bottom-left candidate
SimpleBottomLeft(slab_hull, tendon_hull) ==
    LET t_bounds == PolyBounds(tendon_hull)
        s_bounds == PolyBounds(slab_hull)
        dx_bl == s_bounds[1] - t_bounds[1]
        dy_bl == s_bounds[3] - t_bounds[3]
    IN Fit(DirectedHausdorffOutsideSq(Translate(tendon_hull, dx_bl, dy_bl), slab_hull), 0, dx_bl, dy_bl)

SimpleFit_BestOfTwo(slab_hull, tendon_pts, cfg) ==
    LET tendon_hull == ConvexHull(tendon_pts)
        c == SimpleCentroid(slab_hull, tendon_hull)
        bl == SimpleBottomLeft(slab_hull, tendon_hull)
        best == IF bl.err < c.err THEN bl ELSE c
    IN IF slab_hull = <<>> \/ tendon_hull = <<>> THEN NoFit
       ELSE IF WithinTolerance(best.err, cfg) THEN best
       ELSE NoFit

SimpleFit(slab_hull, tendon_pts, cfg) ==
    LET tendon_hull == ConvexHull(tendon_pts)
    IN IF slab_hull = <<>> \/ tendon_hull = <<>> THEN NoFit
       ELSE IF WithinTolerance(SimpleCentroid(slab_hull, tendon_hull).err, cfg)
            THEN SimpleCentroid(slab_hull, tendon_hull)
       ELSE IF WithinTolerance(SimpleBottomLeft(slab_hull, tendon_hull).err, cfg)
            THEN SimpleBottomLeft(slab_hull, tendon_hull)
       ELSE NoFit

\* ---- find_best_transform._evaluate ----
\* The translations tried for one angle, in the order of evaluation:
\* A centroid, B bounding-box corner, C every slab vertex onto every tendon
\* vertex, D centroid X, E minimum X; D and E take the dy the loop of C left.
Candidates(slab_hull, tend_cent, rot_pts) ==
    LET floor_cent == Centroid(slab_hull)
        tend_bounds == PolyBounds(rot_pts)
        slab_bounds == PolyBounds(slab_hull)
        ns == Len(slab_hull)
        nt == Len(rot_pts)
        vertex == [k \in 1..(ns * nt) |->
                     LET sv == slab_hull[((k - 1) \div nt) + 1]
                         tv == rot_pts[((k - 1) % nt) + 1]
                     IN <<sv[1] - tv[1], sv[2] - tv[2]>>]
        dy == slab_hull[ns][2] - rot_pts[nt][2]
    IN << <<floor_cent[1] - tend_cent[1], floor_cent[2] - tend_cent[2]>>,
          <<slab_bounds[1] - tend_bounds[1], slab_bounds[3] - tend_bounds[3]>> >>
       \o vertex
       \o << <<floor_cent[1] - tend_cent[1], dy>>,
             <<slab_bounds[1] - tend_bounds[1], dy>> >>

\* best_local: a candidate replaces the current one when its error is smaller
RECURSIVE BestLocal(_, _, _, _)
BestLocal(cands, rot_pts, slab_hull, cur) ==
    IF cands = <<>> THEN cur
    ELSE LET c == Head(cands)
             err == DirectedHausdorffOutsideSq(Translate(rot_pts, c[1], c[2]), slab_hull)
         IN BestLocal(Tail(cands), rot_pts, slab_hull,
                      IF ~cur.some \/ err < cur.err THEN Fit(err, 0, c[1], c[2]) ELSE cur)

\* The candidates _evaluate(angle) computes, each with its error, in the
\* order of evaluation
Evaluated(slab_hull, tendon_hull, angle) ==
    LET tend_cent == Centroid(tendon_hull)
        rot_pts == Rotate(tendon_hull, angle, tend_cent)
        cands == Candidates(slab_hull, tend_cent, rot_pts)
    IN [k \in 1..Len(cands) |->
          Fit(DirectedHausdorffOutsideSq(Translate(rot_pts, cands[k][1], cands[k][2]), slab_hull),
              angle, cands[k][1], cands[k][2])]

\* The record of the evaluations: an angle evaluated again computes the
\* same candidates again, which are recorded once
Recorded(hist, eval) ==
    IF \E i \in 1..Len(hist) : hist[i].angle = eval[1].angle THEN hist ELSE hist \o eval

\* best[0] after _evaluate(angle)
Evaluate_LastWins(best, slab_hull, tendon_hull, angle) ==
    LET tend_cent == Centroid(tendon_hull)
        rot_pts == Rotate(tendon_hull, angle, tend_cent)
        loc == BestLocal(Candidates(slab_hull, tend_cent, rot_pts), rot_pts, slab_hull, NoFit)
    IN IF ~best.some \/ loc.err <= best.err
       THEN Fit(loc.err, angle, loc.dx, loc.dy)
       ELSE best

Evaluate(best, slab_hull, tendon_hull, angle) ==
    LET tend_cent == Centroid(tendon_hull)
        rot_pts == Rotate(tendon_hull, angle, tend_cent)
        loc == BestLocal(Candidates(slab_hull, tend_cent, rot_pts), rot_pts, slab_hull, NoFit)
    IN IF ~best.some \/ loc.err < best.err
       THEN Fit(loc.err, angle, loc.dx, loc.dy)
       ELSE best

\* ---- the snap of find_best_transform ----
Snap_NoWorse(best, slab_hull, tendon_hull, cfg) ==
    LET trans_tendon == Translate(Rotate(tendon_hull, best.angle, Centroid(tendon_hull)),
                                  best.dx, best.dy)
        snap_dx == PolyBounds(slab_hull)[1] - PolyBounds(trans_tendon)[1]
        snap_err == DirectedHausdorffOutsideSq(Translate(trans_tendon, snap_dx, 0), slab_hull)
    IN IF snap_dx # 0 /\ snap_err <= best.err
       THEN Fit(snap_err, best.angle, best.dx + snap_dx, best.dy)
       ELSE best

Snap(best, slab_hull, tendon_hull, cfg) ==
    LET trans_tendon == Translate(Rotate(tendon_hull, best.angle, Centroid(tendon_hull)),
                                  best.dx, best.dy)
        snap_dx == PolyBounds(slab_hull)[1] - PolyBounds(trans_tendon)[1]
        snap_err == DirectedHausdorffOutsideSq(Translate(trans_tendon, snap_dx, 0), slab_hull)
    IN IF snap_dx # 0 /\ SqrtLeqPlus(snap_err, best.err, cfg.tolerance)
       THEN Fit(snap_err, best.angle, best.dx + snap_dx, best.dy)
       ELSE best

\* ---- importer._apply_transform ----
ApplyTransform(points, angle, dx, dy, origin) ==
    Translate(Rotate(points, angle, origin), dx, dy)

\* ---- get_alignment_transform as a state machine ----
AlignGrid == {<<x * Scale, y * Scale>> : x \in 0..AlignMax, y \in 0..AlignMax}

\* The end points of two tendons that share their start point
SharedEndLists ==
    {<<sq[1], sq[2], sq[1], sq[3]>> :
        sq \in {SortedSet(S) : S \in {T \in SUBSET AlignGrid : Cardinality(T) = 3}}}

\* tendon_pts: up to MaxAlignPts grid points
TendonPointLists ==
    {SortedSet(S) : S \in {T \in SUBSET AlignGrid : Cardinality(T) <= MaxAlignPts}}

\* Slab outlines, as convex_hull returns them; <<>> when the view shows no floor
SlabHulls ==
    { <<>>,
      ConvexHull(<< <<0, 0>>, <<36, 0>>, <<36, 24>>, <<0, 24>> >>),
      ConvexHull(<< <<12, 12>>, <<36, 12>>, <<36, 36>>, <<12, 36>> >>),
      ConvexHull(<< <<0, 0>>, <<6, 0>>, <<0, 6>> >>),
      ConvexHull(<< <<0, 0>>, <<12, 0>>, <<0, 12>> >>),
      ConvexHull(<< <<0, 30>>, <<18, 0>>, <<18, 36>> >>),
      ConvexHull(<< <<0, 0>>, <<0, 12>> >>),
      ConvexHull(<< <<6, 6>> >>) }

Config(max_error, tolerance, angle_step, refine_step, allow_rotation) ==
    [ max_error |-> max_error, tolerance |-> tolerance, angle_step |-> angle_step,
      refine_step |-> refine_step, allow_rotation |-> allow_rotation ]

\* max_error and tolerance in 1/Scale ft; the steps in quarter turns
AlignConfigs ==
    { Config(4, 1, 1, 2, TRUE),
      Config(4, 1, 2, 4, FALSE),
      Config(0, 0, 1, 2, TRUE),
      Config(0, 12, 2, 2, TRUE),
      Config(12, 0, 1, 4, TRUE),
      Config(2, 2, 2, 2, FALSE) }

\* Configurations whose coarse step is zero or negative
SweepConfigs ==
    { Config(4, 1, 0, 2, TRUE),
      Config(4, 1, -1, 2, TRUE) }

\* Points the user may pick
PickPoints == { <<0, 0>>, <<12, 24>> }

Result(kind, angle, dx, dy) == [kind |-> kind, angle |-> angle, dx |-> dx, dy |-> dy]

\* The centroid of every hull of the run is a grid point of the 1/Scale grid
ExactCentroid(points) ==
    /\ SumCoord(points, 1) % Len(points) = 0
    /\ SumCoord(points, 2) % Len(points) = 0

\* Offsets between the imported coordinates and the model's
Shifts == { <<12, 0>>, <<-24, 36>> }

\* Slab outlines that are the tendon points moved by an offset
TranslatedCopies(pts) == {ConvexHull(Translate(pts, t[1], t[2])) : t \in Shifts}

AlignInitOver(configs) ==
    /\ a_pts \in TendonPointLists \cup SharedEndLists
    /\ a_pts # <<>> => ExactCentroid(a_pts)
    /\ a_slab \in SlabHulls \cup TranslatedCopies(a_pts)
    /\ a_slab # <<>> => ExactCentroid(a_slab)
    /\ ConvexHull(a_pts) # <<>> => ExactCentroid(ConvexHull(a_pts))
    /\ a_cfg \in configs
    /\ a_best = NoFit
    /\ a_eval = <<>>
    /\ a_hist = <<>>
    /\ a_angle = 0
    /\ a_refine = <<>>
    /\ a_find = "pending"
    /\ a_res = Result("pending", 0, 0, 0)
    /\ a_err = 0
    /\ a_applied = <<>>
    /\ a_pc = "simple"

AlignInit == AlignInitOver(AlignConfigs)

\* Any coarse step, the ones that are not positive included
AlignInitAnyStep == AlignInitOver(AlignConfigs \cup SweepConfigs)

AlignIdle ==
    /\ a_slab = <<>>
    /\ a_pts = <<>>
    /\ a_cfg = <<>>
    /\ a_best = NoFit
    /\ a_eval = <<>>
    /\ a_hist = <<>>
    /\ a_angle = 0
    /\ a_refine = <<>>
    /\ a_find = "pending"
    /\ a_res = Result("pending", 0, 0, 0)
    /\ a_err = 0
    /\ a_applied = <<>>
    /\ a_pc = "idle"

\* The fast path returned a fit and the wrapper returns it
AlignSimpleAccept ==
    /\ a_pc = "simple"
    /\ UNCHANGED notAlign
    /\ LET simple_res == SimpleFit(a_slab, a_pts, a_cfg)
       IN /\ simple_res.some
          /\ WithinTolerance(simple_res.err, a_cfg)
          /\ a_res' = Result("simple", simple_res.angle, simple_res.dx, simple_res.dy)
          /\ a_err' = simple_res.err
    /\ a_pc' = "done"
    /\ UNCHANGED <<a_slab, a_pts, a_cfg, a_best, a_eval, a_hist, a_angle, a_refine, a_find, a_applied>>

\* The fast path returned None: the wrapper calls find_best_transform
AlignSimpleReject ==
    /\ a_pc = "simple"
    /\ UNCHANGED notAlign
    /\ LET simple_res == SimpleFit(a_slab, a_pts, a_cfg)
       IN ~(simple_res.some /\ WithinTolerance(simple_res.err, a_cfg))
    /\ a_pc' = "find"
    /\ UNCHANGED <<a_slab, a_pts, a_cfg, a_best, a_eval, a_hist, a_angle, a_refine, a_find, a_res, a_err, a_applied>>

\* find_best_transform: no slab hull or no tendon hull, return None
FindNoHull ==
    /\ a_pc = "find"
    /\ UNCHANGED notAlign
    /\ a_slab = <<>> \/ ConvexHull(a_pts) = <<>>
    /\ a_find' = "none"
    /\ a_pc' = "pick"
    /\ UNCHANGED <<a_slab, a_pts, a_cfg, a_best, a_eval, a_hist, a_angle, a_refine, a_res, a_err, a_applied>>

\* find_best_transform with allow_rotation: the coarse sweep starts at 0
FindSweepStart ==
    /\ a_pc = "find"
    /\ UNCHANGED notAlign
    /\ a_slab # <<>> /\ ConvexHull(a_pts) # <<>>
    /\ a_cfg.allow_rotation
    /\ a_best' = NoFit
    /\ a_eval' = <<>>
    /\ a_hist' = <<>>
    /\ a_angle' = 0
    /\ a_pc' = "sweep"
    /\ UNCHANGED <<a_slab, a_pts, a_cfg, a_refine, a_find, a_res, a_err, a_applied>>

\* find_best_transform without rotation: _evaluate(0.0) only
FindNoRotation ==
    /\ a_pc = "find"
    /\ UNCHANGED notAlign
    /\ a_slab # <<>> /\ ConvexHull(a_pts) # <<>>
    /\ ~a_cfg.allow_rotation
    /\ a_best' = Evaluate(NoFit, a_slab, ConvexHull(a_pts), 0)
    /\ a_eval' = Evaluated(a_slab, ConvexHull(a_pts), 0)
    /\ a_hist' = Evaluated(a_slab, ConvexHull(a_pts), 0)
    /\ a_pc' = "snap"
    /\ UNCHANGED <<a_slab, a_pts, a_cfg, a_angle, a_refine, a_find, a_res, a_err, a_applied>>

\* `angle += step_rad`.  An angle more than a full turn below zero stands
\* for the same angle one turn higher: it rotates alike, it is below 2*pi
\* alike, and its candidates are on record already.
NextSweepAngle(angle, step) ==
    IF angle + step < -FullTurn THEN angle + step + FullTurn ELSE angle + step

\* One iteration of `while angle < 2 * math.pi`
SweepEvaluate ==
    /\ a_pc = "sweep"
    /\ UNCHANGED notAlign
    /\ a_angle < FullTurn
    /\ a_best' = Evaluate(a_best, a_slab, ConvexHull(a_pts), a_angle)
    /\ a_eval' = Evaluated(a_slab, ConvexHull(a_pts), a_angle)
    /\ a_hist' = Recorded(a_hist, Evaluated(a_slab, ConvexHull(a_pts), a_angle))
    /\ a_angle' = NextSweepAngle(a_angle, a_cfg.angle_step)
    /\ UNCHANGED <<a_slab, a_pts, a_cfg, a_refine, a_find, a_res, a_err, a_pc, a_applied>>

\* The sweep is over: the four angles of the refinement are fixed
SweepEnd ==
    /\ a_pc = "sweep"
    /\ UNCHANGED notAlign
    /\ a_angle >= FullTurn
    /\ LET base_ang == a_best.angle
           refine == a_cfg.refine_step
       IN a_refine' = << base_ang - refine, base_ang + refine,
                         base_ang - refine \div 2, base_ang + refine \div 2 >>
    /\ a_pc' = "refine"
    /\ UNCHANGED <<a_slab, a_pts, a_cfg, a_best, a_eval, a_hist, a_angle, a_find, a_res, a_err, a_applied>>

\* One iteration of the refinement loop
RefineEvaluate ==
    /\ a_pc = "refine"
    /\ UNCHANGED notAlign
    /\ a_refine # <<>>
    /\ a_best' = Evaluate(a_best, a_slab, ConvexHull(a_pts), Head(a_refine))
    /\ a_eval' = Evaluated(a_slab, ConvexHull(a_pts), Head(a_refine))
    /\ a_hist' = Recorded(a_hist, Evaluated(a_slab, ConvexHull(a_pts), Head(a_refine)))
    /\ a_refine' = Tail(a_refine)
    /\ a_pc' = IF Tail(a_refine) = <<>> THEN "snap" ELSE "refine"
    /\ UNCHANGED <<a_slab, a_pts, a_cfg, a_angle, a_find, a_res, a_err, a_applied>>

\* Snap, then the final error is within max_error: find_best_transform returns
\* the transform and the wrapper returns it
FindAccept ==
    /\ a_pc = "snap"
    /\ UNCHANGED notAlign
    /\ LET res == Snap(a_best, a_slab, ConvexHull(a_pts), a_cfg)
       IN /\ ~ExceedsMaxError(res.err, a_cfg)
          /\ WithinTolerance(res.err, a_cfg)
          /\ a_best' = res
          /\ a_res' = Result("search", res.angle, res.dx, res.dy)
          /\ a_err' = res.err
    /\ a_find' = "found"
    /\ a_pc' = "done"
    /\ UNCHANGED <<a_slab, a_pts, a_cfg, a_eval, a_hist, a_angle, a_refine, a_applied>>

\* Snap, then the final error exceeds max_error (find_best_transform returns
\* None) or the wrapper's own test fails: the user is asked
FindReject ==
    /\ a_pc = "snap"
    /\ UNCHANGED notAlign
    /\ LET res == Snap(a_best, a_slab, ConvexHull(a_pts), a_cfg)
       IN /\ ExceedsMaxError(res.err, a_cfg) \/ ~WithinTolerance(res.err, a_cfg)
          /\ a_best' = res
          /\ a_find' = IF ExceedsMaxError(res.err, a_cfg) THEN "none" ELSE "found"
    /\ a_pc' = "pick"
    /\ UNCHANGED <<a_slab, a_pts, a_cfg, a_eval, a_hist, a_angle, a_refine, a_res, a_err, a_applied>>

\* _pick_translation: the user picks the bottom-left insertion point
AlignPick ==
    /\ a_pc = "pick"
    /\ UNCHANGED notAlign
    /\ \E picked \in PickPoints :
          a_res' = Result("pick", 0, picked[1] - PolyBounds(a_pts)[1],
                                     picked[2] - PolyBounds(a_pts)[3])
    /\ a_pc' = "done"
    /\ UNCHANGED <<a_slab, a_pts, a_cfg, a_best, a_eval, a_hist, a_angle, a_refine, a_find, a_err, a_applied>>

\* _pick_translation: the user cancels
AlignPickCancel ==
    /\ a_pc = "pick"
    /\ UNCHANGED notAlign
    /\ a_res' = Result("cancelled", 0, 0, 0)
    /\ a_pc' = "done"
    /\ UNCHANGED <<a_slab, a_pts, a_cfg, a_best, a_eval, a_hist, a_angle, a_refine, a_find, a_err, a_applied>>

\* import_ptd_file after get_alignment_transform returned a transform: the
\* end points are rotated about the centroid of all of them and moved
ImportApply ==
    /\ a_pc = "done"
    /\ UNCHANGED notAlign
    /\ a_res.kind # "cancelled"
    /\ a_applied' =
          IF a_res.angle # 0 \/ a_res.dx # 0 \/ a_res.dy # 0
          THEN ApplyTransform(a_pts, a_res.angle, a_res.dx, a_res.dy, Centroid(a_pts))
          ELSE a_pts
    /\ a_pc' = "applied"
    /\ UNCHANGED <<a_slab, a_pts, a_cfg, a_best, a_eval, a_hist, a_angle, a_refine, a_find, a_res, a_err>>

AlignNext ==
    \/ AlignSimpleAccept
    \/ AlignSimpleReject
    \/ FindNoHull
    \/ FindSweepStart
    \/ FindNoRotation
    \/ SweepEvaluate
    \/ SweepEnd
    \/ RefineEvaluate
    \/ FindAccept
    \/ FindReject
    \/ AlignPick
    \/ AlignPickCancel
    \/ ImportApply

(***************************************************************************)
(* Alignment engine: claims                                                *)
(***************************************************************************)
\* err <= bound, err given as its square
ErrLeq(errSq, bound) == errSq <= bound * bound

\* A transform found automatically was returned
ReturnedAutomatic == a_pc = "done" /\ a_res.kind \in {"simple", "search"}

Undo(slab_hull, tendon_hull) ==
    <<slab_hull[1][1] - tendon_hull[1][1], slab_hull[1][2] - tendon_hull[1][2]>>

\* The tendon points are a translated copy of the slab outline
IsTranslatedCopy ==
    /\ a_slab # <<>>
    /\ ConvexHull(a_pts) # <<>>
    /\ a_slab = Translate(ConvexHull(a_pts), Undo(a_slab, ConvexHull(a_pts))[1],
                                             Undo(a_slab, ConvexHull(a_pts))[2])

\* C12: when the tendon points are a pure translation of the slab outline, the
\* alignment returns a transform of angle 0 whose translation undoes that
\* translation, with error 0.
C12_TranslatedCopyIsUndone ==
    (a_pc = "done" /\ IsTranslatedCopy) =>
        /\ ReturnedAutomatic
        /\ a_res.angle = 0
        /\ <<a_res.dx, a_res.dy>> = Undo(a_slab, ConvexHull(a_pts))
        /\ a_err = 0

C12_Witness ==
    /\ a_pc = "done"
    /\ IsTranslatedCopy
    /\ Len(a_slab) >= 3
    /\ Undo(a_slab, ConvexHull(a_pts)) = <<-24, 36>>
    /\ a_res = Result("simple", 0, -24, 36)
    /\ a_err = 0

\* The first candidate of least error among the first n of an evaluation:
\* best_local after them, as a candidate replaces it only with a smaller error
FirstBest(eval, n) ==
    LET least == MinOf({eval[i].err : i \in 1..n})
    IN eval[MinOf({i \in 1..n : eval[i].err = least})]

\* An angle was evaluated; its last two candidates are strategies D and E
HasEvaluation == Len(a_eval) >= 2 + 1 + 2

\* C21: within one angle evaluation, the centroid-X candidate (D) and the
\* minimum-X-edge candidate (E) take as their dy the dy of the best candidate
\* found among strategies A, B and C for that angle.
C21_LateStrategiesKeepBestDy ==
    HasEvaluation =>
        LET n == Len(a_eval)
            prior == FirstBest(a_eval, n - 2)
        IN /\ a_eval[n - 1].dy = prior.dy
           /\ a_eval[n].dy = prior.dy

\* A step of the search that evaluated an angle
EvaluationStep == a_pc \in {"find", "sweep", "refine"} /\ a_eval' # <<>> /\ a_hist' # <<>>

\* C22: during the full search the tracked best is replaced only by a
\* candidate of strictly smaller error: the tracked error never increases
\* from one evaluation to the next, it is the least error of all candidates
\* evaluated so far, and among candidates of equal error the one evaluated
\* first is kept.
C22_BestIsFirstLeastError ==
    [][EvaluationStep =>
          /\ a_best' = FirstBest(a_hist', Len(a_hist'))
          /\ a_best.some => a_best'.err <= a_best.err
          /\ (a_best.some /\ a_best' # a_best) => a_best'.err < a_best.err]_vars

\* Two angles were evaluated, a later candidate ties with the tracked best,
\* and the earlier one is kept
C22_Witness ==
    /\ a_pc \in {"sweep", "refine"}
    /\ a_best.some
    /\ \E i, j \in 1..Len(a_hist) :
          /\ i < j
          /\ a_hist[i] = a_best
          /\ a_hist[j].err = a_best.err
          /\ a_hist[j].angle # a_best.angle
    /\ \E i \in 1..Len(a_hist) : a_hist[i].err > a_best.err

\* The tendon hull under a transform: rotated about its centroid, then moved
Transformed(fit) ==
    Translate(Rotate(ConvexHull(a_pts), fit.angle, Centroid(ConvexHull(a_pts))), fit.dx, fit.dy)

\* The shift along X that puts the minimum-X edge of the transformed tendon
\* hull on that of the slab
EdgeShift(fit) == PolyBounds(a_slab)[1] - PolyBounds(Transformed(fit))[1]

\* The best transform moved by that shift, with its error
Snapped(fit) ==
    Fit(DirectedHausdorffOutsideSq(Translate(Transformed(fit), EdgeShift(fit), 0), a_slab),
        fit.angle, fit.dx + EdgeShift(fit), fit.dy)

C27_AppliedIsEvaluated ==
    (a_pc = "applied" /\ a_res.kind \in {"simple", "search"}) =>
        SeqToSet(ConvexHull(a_applied)) =
            SeqToSet(Transformed(Fit(a_err, a_res.angle, a_res.dx, a_res.dy)))

\* C28: find_best_transform terminates for every configuration value, a
\* coarse step of 0 or below included: every iteration of the coarse sweep
\* leaves the angle strictly nearer to 2*pi, where the sweep ends.
C28_SweepAdvances ==
    [][(a_pc = "sweep" /\ a_pc' = "sweep") => a_angle' > a_angle]_vars

\* C29: when the coarse sweep and the refinement found a candidate whose
\* error is at most max_error, find_best_transform returns a transform and
\* not NotFound: accepting a snap never turns an acceptable fit into NotFound.
C29_AcceptableFitIsReturned ==
    [][(a_pc = "snap" /\ a_best.some /\ ErrLeq(a_best.err, a_cfg.max_error)) =>
          a_find' = "found"]_vars

(***************************************************************************)
(* HAUSDORFF DISTANCE                                                      *)
(***************************************************************************)
\* Bound of the point lists
MaxSetLen == 2

DistPoints == { <<0, 0>>, <<1, 0>>, <<0, 2>>, <<3, 1>> }

PointLists == UNION {[1..n -> DistPoints] : n \in 0..MaxSetLen}

\* Square of hausdorff_distance: the larger of the two directed distances
HausdorffDistance_OneWay(a, b) == DirectedHausdorffSq(a, b)

HausdorffDistanceSq(a, b) ==
    LET ab == DirectedHausdorffSq(a, b)
        ba == DirectedHausdorffSq(b, a)
    IN IF ab >= ba THEN ab ELSE ba

DistInit ==
    /\ d_a \in PointLists
    /\ d_b \in PointLists
    /\ d_ab = 0
    /\ d_ba = 0
    /\ d_aa = 0
    /\ d_pc = "ab"

DistIdle ==
    /\ d_a = <<>>
    /\ d_b = <<>>
    /\ d_ab = 0
    /\ d_ba = 0
    /\ d_aa = 0
    /\ d_pc = "idle"

\* hausdorff_distance(a, b)
HausdorffForward ==
    /\ d_pc = "ab"
    /\ UNCHANGED notDist
    /\ d_ab' = HausdorffDistanceSq(d_a, d_b)
    /\ d_pc' = "ba"
    /\ UNCHANGED <<d_a, d_b, d_ba, d_aa>>

\* hausdorff_distance(b, a)
HausdorffBackward ==
    /\ d_pc = "ba"
    /\ UNCHANGED notDist
    /\ d_ba' = HausdorffDistanceSq(d_b, d_a)
    /\ d_pc' = "aa"
    /\ UNCHANGED <<d_a, d_b, d_ab, d_aa>>

\* _directed_hausdorff(a, a)
DirectedSelf ==
    /\ d_pc = "aa"
    /\ UNCHANGED notDist
    /\ d_aa' = DirectedHausdorffSq(d_a, d_a)
    /\ d_pc' = "done"
    /\ UNCHANGED <<d_a, d_b, d_ab, d_ba>>

DistNext == HausdorffForward \/ HausdorffBackward \/ DirectedSelf

\* C11: for non-empty point sets a and b, hausdorff_distance(a, b) equals
\* hausdorff_distance(b, a), and the directed distance from a to itself is 0.
C11_HausdorffSymmetric ==
    (d_pc = "done" /\ d_a # <<>> /\ d_b # <<>>) =>
        /\ d_ab = d_ba
        /\ d_aa = 0

\* The two directed distances differ, so the symmetry is that of the maximum
C11_Witness ==
    /\ d_pc = "done"
    /\ d_a # <<>> /\ d_b # <<>>
    /\ DirectedHausdorffSq(d_a, d_b) # DirectedHausdorffSq(d_b, d_a)
    /\ d_ab = d_ba
    /\ d_ab > 0

\* Both hulls exist, so that the fast path has its two candidates
HasHulls == a_slab # <<>> /\ ConvexHull(a_pts) # <<>>

CentroidCandidate == SimpleCentroid(a_slab, ConvexHull(a_pts))

CornerCandidate == SimpleBottomLeft(a_slab, ConvexHull(a_pts))

\* The full search has started
SearchRuns == a_pc \in {"sweep", "refine", "snap"} \/ a_best.some

MaxCreate == 2

\* Bound of the drape symbols one tendon produces
MaxDrapes == 1

CreateTx == "Create PT Tendons"

TagTx == "Tag Live Tendon Ends"

\* An element of the document and the transaction it was created in
Element(kind, tx) == [kind |-> kind, tx |-> tx]

\* A tendon of the set: the drape points that get a symbol, the ends of
\* type 1 or 3 (they get a tag), and the flag set by _group_and_flag_tendons
CTendon(drapes, live, grouped) == [drapes |-> drapes, live |-> live, grouped |-> grouped]

CTendonShapes == { CTendon(d, l, g) : d \in 0..MaxDrapes, l \in 0..2, g \in BOOLEAN }

CTendonSets == UNION {[1..n -> CTendonShapes] : n \in 0..MaxCreate}

CreateConfigs == [drape_tags : BOOLEAN, tag_tendon_strands : BOOLEAN, snap_all_ends : BOOLEAN]

Repeat(e, n) == [i \in 1..n |-> e]

\* The elements one iteration of the tendon loop places, in order
PlacedFor(t, cfg) ==
    <<Element("tendon", CreateTx)>> \o
    (IF ~cfg.drape_tags \/ t.grouped THEN <<>> ELSE Repeat(Element("drape", CreateTx), t.drapes))

\* The tags tag_live_ends places for one tendon
TagsFor(t) == IF t.grouped THEN <<>> ELSE Repeat(Element("tag", TagTx), t.live)

RECURSIVE TagsUpTo(_, _)
TagsUpTo(set, n) == IF n = 0 THEN <<>> ELSE TagsUpTo(set, n - 1) \o TagsFor(set[n])

\* Transaction.Commit: what the open transaction created becomes part of
\* the document
Commit(doc, open) == doc \o open

CreateInit ==
    /\ c_set \in CTendonSets
    /\ c_cfg \in CreateConfigs
    /\ c_leaders \in 0..1
    /\ (c_leaders > 0 => \E i \in 1..Len(c_set) : c_set[i].grouped)
    /\ c_i = 1
    /\ c_tx = "none"
    /\ c_tagtx = "none"
    /\ c_open = <<>>
    /\ c_doc = <<>>
    /\ c_failed = "none"
    /\ c_pc = "start"

CreateIdle ==
    /\ c_set = <<>>
    /\ c_cfg = [drape_tags |-> FALSE, tag_tendon_strands |-> FALSE, snap_all_ends |-> FALSE]
    /\ c_leaders = 0
    /\ c_i = 1
    /\ c_tx = "none"
    /\ c_tagtx = "none"
    /\ c_open = <<>>
    /\ c_doc = <<>>
    /\ c_failed = "none"
    /\ c_pc = "idle"

\* A step inside the try block raised after it had placed `placed`: the
\* finally clause runs t.Commit() and the exception leaves create_tendons
RaiseInCreate(placed) ==
    /\ c_doc' = Commit(c_doc, c_open \o placed)
    /\ c_open' = <<>>
    /\ c_tx' = "committed"
    /\ c_failed' = CreateTx
    /\ c_pc' = "done"
    /\ UNCHANGED <<c_set, c_cfg, c_leaders, c_i, c_tagtx>>

\* t = DB.Transaction(doc, "Create PT Tendons"); t.Start()
CreateStart ==
    /\ c_pc = "start"
    /\ UNCHANGED notCreate
    /\ c_tx' = "started"
    /\ c_pc' = "activate"
    /\ UNCHANGED <<c_set, c_cfg, c_leaders, c_i, c_tagtx, c_open, c_doc, c_failed>>

\* The five _ensure_symbol_active calls
ActivateSymbols ==
    /\ c_pc = "activate"
    /\ UNCHANGED notCreate
    /\ c_pc' = "tendons"
    /\ UNCHANGED <<c_set, c_cfg, c_leaders, c_i, c_tx, c_tagtx, c_open, c_doc, c_failed>>

\* A symbol is missing or cannot be activated
ActivateSymbolsFails ==
    /\ c_pc = "activate"
    /\ UNCHANGED notCreate
    /\ RaiseInCreate(<<>>)

\* One iteration of the loop over tendon_set
PlaceTendon ==
    /\ c_pc = "tendons"
    /\ c_i <= Len(c_set)
    /\ UNCHANGED notCreate
    /\ c_open' = c_open \o PlacedFor(c_set[c_i], c_cfg)
    /\ c_i' = c_i + 1
    /\ UNCHANGED <<c_set, c_cfg, c_leaders, c_tx, c_tagtx, c_doc, c_failed, c_pc>>

\* A placement of the iteration raises: the ones before it were made
PlaceTendonFails ==
    /\ c_pc = "tendons"
    /\ c_i <= Len(c_set)
    /\ UNCHANGED notCreate
    /\ \E k \in 0..(Len(PlacedFor(c_set[c_i], c_cfg)) - 1) :
          RaiseInCreate(SubSeq(PlacedFor(c_set[c_i], c_cfg), 1, k))

\* The grouped flags and _place_group_leaders
PlaceLeaders ==
    /\ c_pc = "tendons"
    /\ c_i > Len(c_set)
    /\ UNCHANGED notCreate
    /\ c_open' = c_open \o Repeat(Element("leader", CreateTx), c_leaders)
    /\ c_pc' = "snap"
    /\ UNCHANGED <<c_set, c_cfg, c_leaders, c_i, c_tx, c_tagtx, c_doc, c_failed>>

\* Placing a leader raises
PlaceLeadersFails ==
    /\ c_pc = "tendons"
    /\ c_i > Len(c_set)
    /\ c_leaders > 0
    /\ UNCHANGED notCreate
    /\ \E k \in 0..(c_leaders - 1) : RaiseInCreate(Repeat(Element("leader", CreateTx), k))

\* if snap_all_ends: snap_tendon_ends(...), which creates nothing; then the
\* finally clause commits
SnapAndCommit ==
    /\ c_pc = "snap"
    /\ UNCHANGED notCreate
    /\ c_doc' = Commit(c_doc, c_open)
    /\ c_open' = <<>>
    /\ c_tx' = "committed"
    /\ c_pc' = "tag"
    /\ UNCHANGED <<c_set, c_cfg, c_leaders, c_i, c_tagtx, c_failed>>

\* snap_tendon_ends raises
SnapFails ==
    /\ c_pc = "snap"
    /\ c_cfg.snap_all_ends
    /\ UNCHANGED notCreate
    /\ RaiseInCreate(<<>>)

\* tag_tendon_strands is off: create_tendons returns
SkipTags ==
    /\ c_pc = "tag"
    /\ ~c_cfg.tag_tendon_strands
    /\ UNCHANGED notCreate
    /\ c_pc' = "done"
    /\ UNCHANGED <<c_set, c_cfg, c_leaders, c_i, c_tx, c_tagtx, c_open, c_doc, c_failed>>

\* tagger.tag_live_ends, in its own transaction, after the first one ended
TagLiveEnds ==
    /\ c_pc = "tag"
    /\ c_cfg.tag_tendon_strands
    /\ UNCHANGED notCreate
    /\ c_doc' = Commit(c_doc, TagsUpTo(c_set, Len(c_set)))
    /\ c_tagtx' = "committed"
    /\ c_pc' = "done"
    /\ UNCHANGED <<c_set, c_cfg, c_leaders, c_i, c_tx, c_open, c_failed>>

\* Creating a tag raises: tag_live_ends commits the tags made so far
TagLiveEndsFails ==
    /\ c_pc = "tag"
    /\ c_cfg.tag_tendon_strands
    /\ UNCHANGED notCreate
    /\ \E k \in 0..(Len(TagsUpTo(c_set, Len(c_set))) - 1) :
          c_doc' = Commit(c_doc, SubSeq(TagsUpTo(c_set, Len(c_set)), 1, k))
    /\ c_tagtx' = "committed"
    /\ c_failed' = TagTx
    /\ c_pc' = "done"
    /\ UNCHANGED <<c_set, c_cfg, c_leaders, c_i, c_tx, c_open>>

CreateNext ==
    \/ CreateStart
    \/ ActivateSymbols
    \/ ActivateSymbolsFails
    \/ PlaceTendon
    \/ PlaceTendonFails
    \/ PlaceLeaders
    \/ PlaceLeadersFails
    \/ SnapAndCommit
    \/ SnapFails
    \/ SkipTags
    \/ TagLiveEnds
    \/ TagLiveEndsFails

(***************************************************************************)
(* Element creation claims                                                 *)
(***************************************************************************)
\* C20: every element create_tendons adds to the document was created in
\* the 'Create PT Tendons' transaction, and when a step inside that
\* transaction failed the transaction was rolled back, so the document holds
\* none of the elements of the run.
C20_OneTransactionRolledBackOnFailure ==
    /\ \A i \in 1..Len(c_doc) : c_doc[i].tx = CreateTx
    /\ c_failed = CreateTx => (c_tx = "rolled_back" /\ c_doc = <<>>)

(***************************************************************************)
(* POINT IN HULL (pt_in_convex on the hulls convex_hull returns)           *)
(***************************************************************************)
\* Bound of the point sets whose hull is probed
MaxProbePts == 5

\* The points probed: the grid and a margin of one around it
ProbePoints == (-1..(GridMax + 1)) \X (-1..(GridMax + 1))

ProbeInputs == {SortedSet(S) : S \in {T \in SUBSET Grid : Cardinality(T) <= MaxProbePts}}

ProbeInit ==
    /\ q_points \in ProbeInputs
    /\ q_hull = <<>>
    /\ q_pt = <<>>
    /\ q_in = FALSE
    /\ q_pc = "hull"

ProbeIdle ==
    /\ q_points = <<>>
    /\ q_hull = <<>>
    /\ q_pt = <<>>
    /\ q_in = FALSE
    /\ q_pc = "idle"

\* hull = convex_hull(points)
ProbeHull ==
    /\ q_pc = "hull"
    /\ UNCHANGED notProbe
    /\ q_hull' = ConvexHull(q_points)
    /\ q_pc' = "point"
    /\ UNCHANGED <<q_points, q_pt, q_in>>

\* pt_in_convex(pt, hull)
ProbePoint ==
    /\ q_pc = "point"
    /\ UNCHANGED notProbe
    /\ \E pt \in ProbePoints :
          /\ q_pt' = pt
          /\ q_in' = PtInConvex(pt, q_hull)
    /\ q_pc' = "done"
    /\ UNCHANGED <<q_points, q_hull>>

ProbeNext == ProbeHull \/ ProbePoint

(***************************************************************************)
(* Point in hull: claims                                                   *)
(***************************************************************************)
\* p lies in the closed triangle a, b, c: the three triangles p makes with
\* its sides have the area of the triangle between them
InTriangle(p, a, b, c) ==
    Abs(Cross(p, a, b)) + Abs(Cross(p, b, c)) + Abs(Cross(p, c, a)) = Abs(Cross(a, b, c))

\* p lies in the closed convex polygon: in a triangle of its fan
InClosedPolygon(p, hull) ==
    \E i \in 2..(Len(hull) - 1) : InTriangle(p, hull[1], hull[i], hull[i + 1])

\* p is on the line through an edge of the hull
OnEdgeLine(p, hull) ==
    \E i \in 1..Len(hull) : Cross(hull[i], hull[(i % Len(hull)) + 1], p) = 0

\* C25: for a hull of convex_hull with at least 3 vertices pt_in_convex is
\* true exactly for the points of the closed convex polygon (interior and
\* boundary) and false for every point strictly outside, those on the
\* extension of a hull edge included; for a hull of fewer than 3 vertices it
\* is false for every point.
C25_PointInHullExact ==
    q_pc = "done" =>
        IF Len(q_hull) >= 3
        THEN q_in <=> InClosedPolygon(q_pt, q_hull)
        ELSE ~q_in

\* A point outside a hull of five vertices, on the extension of an edge
C25_Witness ==
    /\ q_pc = "done"
    /\ Len(q_hull) = 5
    /\ OnEdgeLine(q_pt, q_hull)
    /\ ~InClosedPolygon(q_pt, q_hull)
    /\ ~q_in

(***************************************************************************)
(* Specifications                                                          *)
(***************************************************************************)
InitParser == ParserInit /\ HullIdle /\ GroupIdle /\ AlignIdle /\ DistIdle /\ CreateIdle /\ ProbeIdle

SpecParser == InitParser /\ [][ParserNext]_vars

InitHull == HullInit /\ ParserIdle /\ GroupIdle /\ AlignIdle /\ DistIdle /\ CreateIdle /\ ProbeIdle

SpecHull == InitHull /\ [][HullNext]_vars

InitGroup == GroupInit /\ ParserIdle /\ HullIdle /\ AlignIdle /\ DistIdle /\ CreateIdle /\ ProbeIdle

SpecGroup == InitGroup /\ [][GroupNext]_vars

InitAlign == AlignInit /\ ParserIdle /\ HullIdle /\ GroupIdle /\ DistIdle /\ CreateIdle /\ ProbeIdle

SpecAlign == InitAlign /\ [][AlignNext]_vars

InitDist == DistInit /\ AlignIdle /\ GroupIdle /\ HullIdle /\ ParserIdle /\ CreateIdle /\ ProbeIdle

SpecDist == InitDist /\ [][DistNext]_vars

InitCreate == CreateInit /\ AlignIdle /\ DistIdle /\ GroupIdle /\ HullIdle /\ ParserIdle /\ ProbeIdle

SpecCreate == InitCreate /\ [][CreateNext]_vars

InitProbe == ProbeInit /\ AlignIdle /\ CreateIdle /\ DistIdle /\ GroupIdle /\ HullIdle /\ ParserIdle

SpecProbe == InitProbe /\ [][ProbeNext]_vars

InitAlignAnyStep == AlignInitAnyStep /\ ParserIdle /\ HullIdle /\ GroupIdle /\ DistIdle /\ CreateIdle /\ ProbeIdle

SpecAlignAnyStep == InitAlignAnyStep /\ [][AlignNext]_vars

====
